---- MODULE Spec2Model ----
(***************************************************************************)
(* Texture Loader of the infinite-canvas engine (src/lib/texture-manager). *)
(*                                                                         *)
(* JavaScript runs every synchronous stretch of code to completion, so one *)
(* action of this model is one such stretch: an exported function called   *)
(* by the host together with everything it calls up to the next await, or  *)
(* the continuation of one processQueue invocation after its awaited       *)
(* loadImageBitmap settles, up to that invocation's next await or return.  *)
(* A processQueue invocation suspended at its await is one in-flight fetch *)
(* of `fetches`.                                                           *)
(***************************************************************************)
EXTENDS Integers, Sequences, FiniteSets

\* ------------------------------------------------------------------ bounds

\* The media pool: the urls of the manifest.
URLs == {"a", "b", "c"}

\* Concurrency limit and cache capacity. The source sets 8 and 750; the spec
\* treats both as configuration, and they are scaled down here so that three
\* urls reach and exceed them.
MAX_CONCURRENT_LOADS == 2
MAX_CACHE_SIZE == 1

\* performance.now() never exceeds MaxTime in the model.
MaxTime == 2

\* Longest item list handed to preloadAllTextures, and to preloadTextures.
MaxItems == 2
MaxBatch == 2

\* ------------------------------------------------------------------- state

VARIABLES
  textureCache,     \* keys of the url -> THREE.Texture map
  textureLastUsed,  \* url -> timestamp map, as its entries in insertion order
  loadCallbacks,    \* url -> Set of onLoad closures, each in insertion order
  loadQueue,        \* pending urls, first in first out
  activeLoads,      \* the counter of line 20
  loadingUrls,      \* the in-flight markers of line 21
  fetches,          \* url -> number of loadImageBitmap promises not yet settled
  now,              \* what performance.now() returns
  promise,          \* preloadAllTextures' promise and its closure variables
  progress,         \* the values onProgress was called with, as <<num, den>>
  lastOp,           \* the operation the last step ran, and its url
  delivered,        \* <<callback, url>> for each onLoad call of the last step
  disposed,         \* the urls whose texture the last step disposed, in order
  started,          \* the urls the last step called loadImageBitmap for, in order
  registered,       \* history: per url, the closures handed to getTexture and
                    \* not called yet, in the order they were handed over
  lastUse,          \* history: per url, the time of its latest getTexture call
                    \* or completed load; -1 before the first
  \* The camera controller (scene.tsx, ControllerState and useFrame).
  frameNow,         \* performance.now() as the latest frame read it, in ms
  camChunk,         \* the chunk coordinate of basePos (cameraGridRef)
  speedZ,           \* |velocity.z| in hundredths of a world unit per frame
  lastChunkKey,     \* ControllerState: key of the chunk last seen, <<>> for ""
  lastChunkUpdate,  \* ControllerState: time of the last applied update
  pendingChunk,     \* ControllerState: <<coordinate>>, or <<>> for null
  lastPreloadUpdate,\* ControllerState: time of the last preload batch
  lastPreloadKey,   \* ControllerState: key of the last preload batch
  chunks,           \* the coordinate the active chunk list is centred on
  frameLog,         \* what the latest frame did
  appliedAt,        \* history: time of the latest update a frame applied; -1
                    \* before the first
  sinceUpdate,      \* history: when the latest frame applied an update, the
                    \* time since the update before it; -1 otherwise
  sincePreload,     \* history: now - lastPreloadUpdate as the latest frame
                    \* read it at line 540; -1 before the first frame
  \* The fade manager (module state, lines 23-27) and what it animates.
  activeFades,      \* id -> FadeEntry map, as its entries in insertion order
  isAnimating,
  animationFrameId, \* NoFrame for null
  rafPending,       \* handles of the animate callbacks the browser still holds
  visuals,          \* per id: opacity of both materials, visibility of both
                    \* meshes and the image material's depthWrite; opacities
                    \* are in hundredths
  fadeLog,          \* what the latest fade step did
  fadeTicks,        \* history: per id, the ticks that advanced its entry since
                    \* its latest startFade
  fadeRemoved,      \* history: per id, removeFade was called since its latest
                    \* startFade
  \* The plane cache of the chunk utilities.
  planeCache,       \* key -> PlaneData[] map, as its entries in insertion order
  planeLog,         \* the latest generateChunkPlanesCached call
  recency,          \* history: the keys ever fetched, least recently fetched
                    \* first
  fifo,             \* history: the cached keys, first generated first
  \* The scene controller's startup (scene.tsx, SceneController).
  mounted,          \* the preload effect's closure variable (line 315)
  isPreloaded,      \* React state of line 310
  isLoaded,         \* the host's state, set by onLoadComplete (line 663)
  thenRan,          \* the promise's then callback has run
  composed,         \* a render of SceneController returned the chunks
  \* The MediaPlane components (scene.tsx, lines 118-236).
  mediaPlanes,      \* per plane: where it is in its life, its media url, the
                    \* isCached of its render, its textureAppliedRef, whether its refs hold their objects,
                    \* whether its effect returned a cleanup, and the map of
                    \* its image material
  planeHistory,     \* history: per plane, its getTexture calls and its
                    \* startFade calls
  \* The overscan batch of a frame (scene.tsx, lines 545-571).
  batchVelocity,    \* s.velocity as the frame read it, in hundredths
  batchCentre,      \* the chunk the camera is in (cx, cy, cz)
  sortedOffsets,    \* the frame's sortedOffsets
  preloadItems,     \* the frame's preloadItems, as indices into media
  itemFrom,         \* history: per queued item, the index in sortedOffsets of
                    \* the offset whose chunk it was queued for
  \* The camera's motion state (scene.tsx, ControllerState, lines 95-104), in
  \* hundredths of a world unit.
  velocity,         \* ControllerState: velocity per frame, x y z
  targetVel,        \* ControllerState: the velocity aimed at, x y z
  basePos,          \* ControllerState: the camera's position without drift
  drift,            \* ControllerState: the parallax offset, x y
  mouse,            \* ControllerState: the pointer, -100..100 on each axis
  lastMouse,        \* ControllerState: the pointer of the last drag event, px
  scrollAccum,      \* ControllerState: wheel input not yet applied
  isDragging,       \* ControllerState: a mouse button is held
  cameraPosition,   \* camera.position as the latest frame set it
  physLog,          \* the latest step: its kind, and whether a frame's clamp
                    \* cut targetVel
  physTicks,        \* the frames so far
  physInputs,       \* the input events since the latest frame
  \* The loader's failures, in the runs that follow them up.
  failedWaiters     \* history: per url, the closures that waited for it when
                    \* its load last failed, until the step after its next load

loaderVars == <<textureCache, textureLastUsed, loadCallbacks, loadQueue,
                activeLoads, loadingUrls, fetches, now, promise, progress,
                lastOp, delivered, disposed, started, registered, lastUse>>

controllerVars == <<frameNow, camChunk, speedZ, lastChunkKey, lastChunkUpdate,
                    pendingChunk, lastPreloadUpdate, lastPreloadKey, chunks,
                    frameLog, appliedAt, sinceUpdate, sincePreload>>

fadeVars == <<activeFades, isAnimating, animationFrameId, rafPending, visuals,
              fadeLog, fadeTicks, fadeRemoved>>

planeVars == <<planeCache, planeLog, recency, fifo>>

sceneVars == <<mounted, isPreloaded, isLoaded, thenRan, composed>>

retryVars == <<failedWaiters>>

mediaVars == <<mediaPlanes, planeHistory>>

batchVars ==
  <<batchVelocity, batchCentre, sortedOffsets, preloadItems, itemFrom>>

physVars ==
  <<velocity, targetVel, basePos, drift, mouse, lastMouse, scrollAccum,
    isDragging, cameraPosition, physLog, physTicks, physInputs>>

vars ==
  <<loaderVars, controllerVars, fadeVars, planeVars, sceneVars, retryVars,
    mediaVars, batchVars, physVars>>

\* The onLoad closures: the one a MediaPlane passes (scene.tsx line 162), and
\* the one preloadAllTextures makes for its i-th item, <<"item", i>>.
UserCallbacks == {<<"plane", 1>>}
NoCallback == <<"none", 0>>

Range(seq) == {seq[i] : i \in 1..Len(seq)}

\* Sequences over S of length at most n.
SeqsUpTo(S, n) == UNION {[1..k -> S] : k \in 0..n}

\* The module state as one record, so that the functions below read as the code.
State ==
  [textureCache |-> textureCache, textureLastUsed |-> textureLastUsed,
   loadCallbacks |-> loadCallbacks, loadQueue |-> loadQueue,
   activeLoads |-> activeLoads, loadingUrls |-> loadingUrls,
   fetches |-> fetches, now |-> now, promise |-> promise,
   progress |-> progress, delivered |-> <<>>, disposed |-> <<>>,
   started |-> <<>>]

\* ------------------------------------------------------------- Map helpers

\* Map.prototype.set on textureLastUsed: an existing key keeps its place.
MapSet(entries, url, t) ==
  IF \E i \in 1..Len(entries) : entries[i].url = url
  THEN [i \in 1..Len(entries) |->
          IF entries[i].url = url THEN [url |-> url, t |-> t] ELSE entries[i]]
  ELSE Append(entries, [url |-> url, t |-> t])

\* Map.prototype.delete.
MapDelete(entries, url) == SelectSeq(entries, LAMBDA e : e.url # url)

\* Set.prototype.add on a callback Set: a member is not added twice.
SetAdd(cbs, cb) == IF cb \in Range(cbs) THEN cbs ELSE Append(cbs, cb)

\* Array.prototype.sort((a, b) => a[1] - b[1]): ascending by timestamp, stable.
RECURSIVE InsertByTime(_, _)
InsertByTime(sorted, e) ==
  IF sorted = <<>> THEN <<e>>
  ELSE IF sorted[Len(sorted)].t <= e.t THEN Append(sorted, e)
  ELSE Append(InsertByTime(SubSeq(sorted, 1, Len(sorted) - 1), e),
              sorted[Len(sorted)])

\* Mutant: the entries left in the Map's insertion order.
SortByTimeSkipped(entries) == entries

RECURSIVE SortByTime(_)
SortByTime(entries) ==
  IF entries = <<>> THEN <<>>
  ELSE InsertByTime(SortByTime(SubSeq(entries, 1, Len(entries) - 1)),
                    entries[Len(entries)])

\* ---------------------------------------------------------------- callbacks

\* Mutant: the promise resolved one report early.
ReportProgressEarly(s) ==
  LET loaded == s.promise.loaded + 1
      total == s.promise.total
  IN [s EXCEPT !.promise = [@ EXCEPT !.loaded = loaded,
                                     !.status = IF loaded >= total - 1
                                                THEN "resolved" ELSE @],
               !.progress = Append(@, <<loaded, total>>)]

\* reportProgress of preloadAllTextures.
ReportProgress(s) ==
  LET loaded == s.promise.loaded + 1
      total == s.promise.total
  IN [s EXCEPT !.promise = [@ EXCEPT !.loaded = loaded,
                                     !.status = IF loaded = total
                                                THEN "resolved" ELSE @],
               !.progress = Append(@, <<loaded, total>>)]

\* One onLoad call. The host's closures do not call back into the loader.
InvokeCallback(s, cb, url) ==
  LET s1 == [s EXCEPT !.delivered = Append(@, <<cb, url>>)]
  IN IF cb[1] = "item" THEN ReportProgress(s1) ELSE s1

\* Mutant: the waiters called last first.
RECURSIVE ForEachCallbackReversed(_, _, _)
ForEachCallbackReversed(s, cbs, url) ==
  IF cbs = <<>> THEN s
  ELSE ForEachCallbackReversed(InvokeCallback(s, cbs[Len(cbs)], url),
                               SubSeq(cbs, 1, Len(cbs) - 1), url)

\* Set.prototype.forEach over a callback Set.
RECURSIVE ForEachCallback(_, _, _)
ForEachCallback(s, cbs, url) ==
  IF cbs = <<>> THEN s
  ELSE ForEachCallback(InvokeCallback(s, Head(cbs), url), Tail(cbs), url)

\* ----------------------------------------------------------------- eviction

RECURSIVE EvictLoop(_, _, _, _)
EvictLoop(s, entries, i, toRemove) ==
  IF ~(i < toRemove /\ i < Len(entries)) THEN s
  ELSE LET url == entries[i + 1].url
       IN IF url \in s.textureCache
          THEN EvictLoop([s EXCEPT !.disposed = Append(@, url),
                                   !.textureCache = @ \ {url},
                                   !.textureLastUsed = MapDelete(@, url)],
                         entries, i + 1, toRemove)
          ELSE EvictLoop(s, entries, i + 1, toRemove)

\* Mutant: one entry too few removed.
evictOldTexturesOffByOne(s) ==
  IF Cardinality(s.textureCache) <= MAX_CACHE_SIZE THEN s
  ELSE EvictLoop(s, SortByTime(s.textureLastUsed), 0,
                 Cardinality(s.textureCache) - MAX_CACHE_SIZE - 1)

evictOldTextures(s) ==
  IF Cardinality(s.textureCache) <= MAX_CACHE_SIZE THEN s
  ELSE EvictLoop(s, SortByTime(s.textureLastUsed), 0,
                 Cardinality(s.textureCache) - MAX_CACHE_SIZE)

\* ------------------------------------------------------------- processQueue

\* Mutant: the url not marked as loading.
StartLoadUnmarked(s, url) ==
  [s EXCEPT !.activeLoads = @ + 1,
            !.fetches = [@ EXCEPT ![url] = @ + 1],
            !.started = Append(@, url)]

\* Lines 66-70: take a slot, mark the url, call loadImageBitmap and await it.
StartLoad(s, url) ==
  [s EXCEPT !.activeLoads = @ + 1,
            !.loadingUrls = @ \cup {url},
            !.fetches = [@ EXCEPT ![url] = @ + 1],
            !.started = Append(@, url)]

\* Mutant: one load more than the limit.
HasSlotOffByOne(s) == s.activeLoads <= MAX_CONCURRENT_LOADS

\* The while condition of line 54.
HasSlot(s) == s.activeLoads < MAX_CONCURRENT_LOADS

\* The while loop from its head to the next await or to the function's return.
\* On leaving the loop line 97 tests the negation of line 54 with nothing run
\* in between, so the setTimeout of line 99 is never reached.
RECURSIVE processQueue(_)
processQueue(s) ==
  IF HasSlot(s) /\ s.loadQueue # <<>>
  THEN LET url == Head(s.loadQueue)
           s1 == [s EXCEPT !.loadQueue = Tail(@)]
       IN IF url \in s1.loadingUrls THEN processQueue(s1)
          ELSE IF url \in s1.textureCache
          THEN processQueue(
                 [ForEachCallback(s1, s1.loadCallbacks[url], url)
                    EXCEPT !.loadCallbacks = [@ EXCEPT ![url] = <<>>]])
          ELSE StartLoad(s1, url)
  ELSE s

\* Mutant: the worker returns after its load instead of looping.
FinallyStops(s, url) ==
  [s EXCEPT !.activeLoads = @ - 1,
            !.loadingUrls = @ \ {url}]

\* Lines 90-93 and the loop's next round.
Finally(s, url) ==
  processQueue([s EXCEPT !.activeLoads = @ - 1,
                         !.loadingUrls = @ \ {url}])

\* Lines 71-87, after the awaited loadImageBitmap resolved.
LoadResolved(s, url) ==
  LET s1 == [s EXCEPT !.fetches = [@ EXCEPT ![url] = @ - 1],
                      !.textureCache = @ \cup {url},
                      !.textureLastUsed = MapSet(@, url, s.now)]
      s2 == ForEachCallback(s1, s1.loadCallbacks[url], url)
      s3 == [s2 EXCEPT !.loadCallbacks = [@ EXCEPT ![url] = <<>>]]
  IN Finally(evictOldTextures(s3), url)

\* Mutant: the url's wait list deleted when its load fails.
CatchBlockDropsWaiters(s, url) ==
  [s EXCEPT !.loadCallbacks = [@ EXCEPT ![url] = <<>>]]

\* Lines 88-89: the catch block logs the error and leaves the state alone.
CatchBlock(s, url) == s

\* Mutant: the in-flight marker kept when the load fails.
LoadRejectedKeepsMarker(s, url) ==
  processQueue([s EXCEPT !.fetches = [@ EXCEPT ![url] = @ - 1],
                         !.activeLoads = @ - 1])

\* After the awaited loadImageBitmap rejected: the catch block, then finally.
LoadRejected(s, url) ==
  Finally(CatchBlock([s EXCEPT !.fetches = [@ EXCEPT ![url] = @ - 1]], url),
          url)

\* ------------------------------------------------------------ the exports

RECURSIVE DisposeAll(_)
\* Line 252: every cached texture disposed. The cache is modelled by its set
\* of keys, so the urls come in some order.
DisposeAll(urls) ==
  IF urls = {} THEN <<>>
  ELSE LET u == CHOOSE x \in urls : TRUE
       IN <<u>> \o DisposeAll(urls \ {u})

\* Lines 251-259. The fetches in flight are not touched: their continuations
\* still run when they settle.
clearTextureCache(s) ==
  [s EXCEPT !.disposed = @ \o DisposeAll(s.textureCache),
            !.textureCache = {},
            !.loadCallbacks = [u \in URLs |-> <<>>],
            !.textureLastUsed = <<>>,
            !.loadQueue = <<>>,
            !.activeLoads = 0,
            !.loadingUrls = {}]

\* Mutant: the url pushed without looking for it in the queue.
getTextureAlwaysQueues(s, url, onLoad) ==
  LET s1 == [s EXCEPT !.textureLastUsed = MapSet(@, url, s.now)]
  IN IF url \in s1.textureCache
     THEN IF onLoad # NoCallback THEN InvokeCallback(s1, onLoad, url) ELSE s1
     ELSE LET s2 == IF onLoad # NoCallback
                    THEN [s1 EXCEPT !.loadCallbacks =
                            [@ EXCEPT ![url] = SetAdd(@, onLoad)]]
                    ELSE s1
          IN processQueue([s2 EXCEPT !.loadQueue = Append(@, url)])

\* Lines 128-158.
getTexture(s, url, onLoad) ==
  LET s1 == [s EXCEPT !.textureLastUsed = MapSet(@, url, s.now)]
  IN IF url \in s1.textureCache
     THEN IF onLoad # NoCallback THEN InvokeCallback(s1, onLoad, url) ELSE s1
     ELSE LET s2 == IF onLoad # NoCallback
                    THEN [s1 EXCEPT !.loadCallbacks =
                            [@ EXCEPT ![url] = SetAdd(@, onLoad)]]
                    ELSE s1
          IN IF url \in s2.loadingUrls \/ url \in Range(s2.loadQueue)
             THEN s2
             ELSE processQueue([s2 EXCEPT !.loadQueue = Append(@, url)])

RECURSIVE PreloadLoop(_, _)
PreloadLoop(s, items) ==
  IF items = <<>> THEN s
  ELSE LET url == Head(items)
       IN IF \/ url \in s.textureCache
             \/ url \in s.loadingUrls
             \/ url \in Range(s.loadQueue)
          THEN PreloadLoop(s, Tail(items))
          ELSE PreloadLoop([s EXCEPT !.loadQueue = Append(@, url)], Tail(items))

preloadTextures(s, items) == processQueue(PreloadLoop(s, items))

\* The for loop of lines 203-216; i is the index of the item in hand.
RECURSIVE PreloadAllLoop(_, _, _)
PreloadAllLoop(s, items, i) ==
  IF i > Len(items) THEN s
  ELSE IF items[i] \in s.textureCache
  THEN PreloadAllLoop(ReportProgress(s), items, i + 1)
  ELSE PreloadAllLoop(getTexture(s, items[i], <<"item", i>>), items, i + 1)

preloadAllTextures(s, items) ==
  LET s1 == [s EXCEPT !.promise = [status |-> "pending", items |-> items,
                                   total |-> Len(items), loaded |-> 0]]
  IN IF Len(items) = 0
     THEN [s1 EXCEPT !.progress = Append(@, <<1, 1>>),
                     !.promise = [@ EXCEPT !.status = "resolved"]]
     ELSE PreloadAllLoop(s1, items, 1)

\* What getCachedTexture returns; it assigns nothing.
getCachedTexture(s, url) == IF url \in s.textureCache THEN url ELSE "null"

\* ----------------------------------------------------------------- actions

\* The step's effect on the module state s, and on the history variables:
\* `used` are the urls the step requested or finished loading, `handed` the
\* closures it handed to getTexture for a url that was not cached.
Assign(s, op, used, handed) ==
  /\ textureCache' = s.textureCache
  /\ textureLastUsed' = s.textureLastUsed
  /\ loadCallbacks' = s.loadCallbacks
  /\ loadQueue' = s.loadQueue
  /\ activeLoads' = s.activeLoads
  /\ loadingUrls' = s.loadingUrls
  /\ fetches' = s.fetches
  /\ now' = s.now
  /\ promise' = s.promise
  /\ progress' = s.progress
  /\ delivered' = s.delivered
  /\ disposed' = s.disposed
  /\ started' = s.started
  /\ lastOp' = op
  /\ lastUse' = [u \in URLs |-> IF u \in used THEN now ELSE lastUse[u]]
  /\ registered' =
       [u \in URLs |->
          SelectSeq(handed[u], LAMBDA cb : <<cb, u>> \notin Range(s.delivered))]

LoaderInit ==
  /\ textureCache = {}
  /\ textureLastUsed = <<>>
  /\ loadCallbacks = [u \in URLs |-> <<>>]
  /\ loadQueue = <<>>
  /\ activeLoads = 0
  /\ loadingUrls = {}
  /\ fetches = [u \in URLs |-> 0]
  /\ now = 0
  /\ promise = [status |-> "none", items |-> <<>>, total |-> 0, loaded |-> 0]
  /\ progress = <<>>
  /\ lastOp = <<"init", "null">>
  /\ delivered = <<>>
  /\ disposed = <<>>
  /\ started = <<>>
  /\ registered = [u \in URLs |-> <<>>]
  /\ lastUse = [u \in URLs |-> -1]

\* ------------------------------------------------------ camera controller

\* Chunk coordinates the camera visits: the four chunks that meet at the
\* world origin in the plane z = 0, each adjacent to the others.
Chunks ==
  {[cx |-> x, cy |-> y, cz |-> 0] : x \in {-1, 0}, y \in {-1, 0}}

\* |velocity.z| in hundredths: at rest, zooming, zooming fast.
ZoomSpeeds == {0, 50, 200}

\* Milliseconds between two frames: a steady frame rate, and a stall.
FrameGaps == {50, 200}

\* performance.now() never exceeds MaxNow ms in the model.
MaxNow == 700

PRELOAD_THROTTLE_MS == 500

\* The template string `${cx},${cy},${cz}`: the three numbers in this order.
ChunkKey(c) == <<c.cx, c.cy, c.cz>>

\* ControllerState and the scene's chunk list as one record.
Controller ==
  [lastChunkKey |-> lastChunkKey, lastChunkUpdate |-> lastChunkUpdate,
   pendingChunk |-> pendingChunk, lastPreloadUpdate |-> lastPreloadUpdate,
   lastPreloadKey |-> lastPreloadKey, chunks |-> chunks,
   log |-> [entered |-> FALSE, overwrote |-> FALSE, applied |-> FALSE,
            preloaded |-> FALSE, throttleMs |-> 0]]

\* Mutant: the zoom state ignored.
getChunkUpdateThrottleMsFlat(isZooming, zoomSpeed) == 100

\* zoomSpeed is in hundredths, so 1.0 is 100.
getChunkUpdateThrottleMs(isZooming, zoomSpeed) ==
  IF zoomSpeed > 100 THEN 500
  ELSE IF isZooming THEN 400
  ELSE 100

\* Mutant: the two times of the difference swapped.
shouldThrottleUpdateSwapped(lastUpdate, throttleMs, t) ==
  lastUpdate - t >= throttleMs

shouldThrottleUpdate(lastUpdate, throttleMs, t) == t - lastUpdate >= throttleMs

\* Mutant: a pending coordinate is kept until it is applied.
BoundaryCheckKeepsFirst(c, coord) ==
  IF ChunkKey(coord) # c.lastChunkKey
  THEN [c EXCEPT !.pendingChunk = IF @ = <<>> THEN <<coord>> ELSE @,
                 !.lastChunkKey = ChunkKey(coord),
                 !.log = [@ EXCEPT !.entered = TRUE,
                                   !.overwrote = c.pendingChunk # <<>>]]
  ELSE c

\* Lines 506-510.
BoundaryCheck(c, coord) ==
  IF ChunkKey(coord) # c.lastChunkKey
  THEN [c EXCEPT !.pendingChunk = <<coord>>,
                 !.lastChunkKey = ChunkKey(coord),
                 !.log = [@ EXCEPT !.entered = TRUE,
                                   !.overwrote = c.pendingChunk # <<>>]]
  ELSE c

\* Lines 513-534. The list handed to setChunks is CHUNK_OFFSETS moved to the
\* pending coordinate, so the coordinate stands for the list.
ThrottledUpdate(c, isZooming, zoomSpeed, t) ==
  LET throttleMs == getChunkUpdateThrottleMs(isZooming, zoomSpeed)
      c1 == [c EXCEPT !.log = [@ EXCEPT !.throttleMs = throttleMs]]
  IN IF /\ c1.pendingChunk # <<>>
        /\ shouldThrottleUpdate(c1.lastChunkUpdate, throttleMs, t)
     THEN [c1 EXCEPT !.pendingChunk = <<>>,
                     !.lastChunkUpdate = t,
                     !.chunks = c1.pendingChunk[1],
                     !.log = [@ EXCEPT !.applied = TRUE]]
     ELSE c1

\* Mutant: a batch allowed at exactly the throttle interval.
PreloadCheckAtThreshold(c, coord, t) ==
  IF /\ ChunkKey(coord) # c.lastPreloadKey
     /\ t - c.lastPreloadUpdate >= PRELOAD_THROTTLE_MS
  THEN [c EXCEPT !.lastPreloadKey = ChunkKey(coord),
                 !.lastPreloadUpdate = t,
                 !.log = [@ EXCEPT !.preloaded = TRUE]]
  ELSE c

\* Lines 537-543: whether this frame hands a batch to the loader.
PreloadCheck(c, coord, t) ==
  IF /\ ChunkKey(coord) # c.lastPreloadKey
     /\ t - c.lastPreloadUpdate > PRELOAD_THROTTLE_MS
  THEN [c EXCEPT !.lastPreloadKey = ChunkKey(coord),
                 !.lastPreloadUpdate = t,
                 !.log = [@ EXCEPT !.preloaded = TRUE]]
  ELSE c

\* The frame callback from line 498 on: coord is the chunk basePos is in
\* after the position update, zoomBefore and zoomAfter are |velocity.z|
\* before and after the smoothing of line 479.
useFrame(c, coord, zoomBefore, zoomAfter, t) ==
  PreloadCheck(
    ThrottledUpdate(BoundaryCheck(c, coord), zoomBefore > 5, zoomAfter, t),
    coord, t)

\* createInitialState (lines 95-111) with the camera at (0, 0, 50), and the
\* chunk list the mount effect sets (lines 581-597).
ControllerInit ==
  /\ frameNow = 0
  /\ camChunk = [cx |-> 0, cy |-> 0, cz |-> 0]
  /\ speedZ = 0
  /\ lastChunkKey = <<>>
  /\ lastChunkUpdate = 0
  /\ pendingChunk = <<>>
  /\ lastPreloadUpdate = 0
  /\ lastPreloadKey = <<>>
  /\ chunks = [cx |-> 0, cy |-> 0, cz |-> 0]
  /\ frameLog = Controller.log
  /\ appliedAt = -1
  /\ sinceUpdate = -1
  /\ sincePreload = -1

\* ------------------------------------------------------------ fade manager

\* The ids of the planes that fade in.
FadeIds == {"p1", "p2"}

\* 0.08 and 0.1 of opacity per tick, in hundredths.
FADE_IN_SPEED == 8
FADE_OUT_SPEED == 10

\* animationFrameId = null.
NoFrame == 0

Min(a, b) == IF a <= b THEN a ELSE b
Max(a, b) == IF a >= b THEN a ELSE b

\* The module state, the browser's frame requests and the scene objects as
\* one record.
Fades ==
  [activeFades |-> activeFades, isAnimating |-> isAnimating,
   animationFrameId |-> animationFrameId, rafPending |-> rafPending,
   visuals |-> visuals, removed |-> {}]

FadeKeys(entries) == {entries[i].id : i \in 1..Len(entries)}

\* Map.prototype.set on activeFades: an existing key keeps its place.
FadeSet(entries, e) ==
  IF e.id \in FadeKeys(entries)
  THEN [i \in 1..Len(entries) |-> IF entries[i].id = e.id THEN e ELSE entries[i]]
  ELSE Append(entries, e)

\* requestAnimationFrame(animate): the browser keeps the callback under a
\* handle that no request in its list and no handle the module holds has.
requestAnimationFrame(f) ==
  LET h == CHOOSE h \in 1..(Cardinality(f.rafPending) + 2) :
             /\ h \notin f.rafPending
             /\ h # f.animationFrameId
             /\ \A k \in 1..(h - 1) :
                  k \in f.rafPending \/ k = f.animationFrameId
  IN [f EXCEPT !.rafPending = @ \cup {h}, !.animationFrameId = h]

\* Lines 37-58.
startFade(f, id) ==
  LET f1 == [f EXCEPT !.activeFades =
               FadeSet(@, [id |-> id, imageOpacity |-> 0,
                           placeholderOpacity |-> 100])]
  IN IF ~f1.isAnimating
     THEN requestAnimationFrame([f1 EXCEPT !.isAnimating = TRUE])
     ELSE f1

\* Mutant: the entry stays tracked.
removeFadeIgnored(f, id) == f

\* Lines 63-65.
removeFade(f, id) ==
  [f EXCEPT !.activeFades = SelectSeq(@, LAMBDA e : e.id # id)]

\* Mutant: the opacities stepped without the clamps.
AdvanceUnclamped(e) ==
  [e EXCEPT !.imageOpacity = @ + FADE_IN_SPEED,
            !.placeholderOpacity = @ - FADE_OUT_SPEED]

\* Lines 75-76: the entry's opacities after one tick.
Advance(e) ==
  [e EXCEPT !.imageOpacity = Min(100, @ + FADE_IN_SPEED),
            !.placeholderOpacity = Max(0, @ - FADE_OUT_SPEED)]

\* Mutant: depthWrite switched on from opacity 0.9.
ShownDepthEarly(e) ==
  [imageOpacity |-> e.imageOpacity,
   placeholderOpacity |-> e.placeholderOpacity,
   imageVisible |-> e.imageOpacity > 1,
   placeholderVisible |-> e.placeholderOpacity > 1,
   depthWrite |-> e.imageOpacity > 90]

\* Lines 78-92: what the tick writes to the entry's materials and meshes.
Shown(e) ==
  [imageOpacity |-> e.imageOpacity,
   placeholderOpacity |-> e.placeholderOpacity,
   imageVisible |-> e.imageOpacity > 1,
   placeholderVisible |-> e.placeholderOpacity > 1,
   depthWrite |-> e.imageOpacity > 99]

\* Mutant: an entry counts as finished when either side is.
FinishedEither(e) == e.imageOpacity >= 100 \/ e.placeholderOpacity <= 0

\* The test of line 95.
Finished(e) == e.imageOpacity >= 100 /\ e.placeholderOpacity <= 0

\* Mutant: the next tick requested whatever is tracked.
RescheduleAlways(f) == requestAnimationFrame(f)

\* Lines 105-110.
Reschedule(f) ==
  IF Len(f.activeFades) > 0
  THEN requestAnimationFrame(f)
  ELSE [f EXCEPT !.isAnimating = FALSE, !.animationFrameId = NoFrame]

\* Lines 70-111: one tick.
animate(f) ==
  LET advanced == [i \in 1..Len(f.activeFades) |-> Advance(f.activeFades[i])]
      toRemove == {advanced[i].id : i \in {j \in 1..Len(advanced) :
                                             Finished(advanced[j])}}
  IN Reschedule(
       [f EXCEPT !.activeFades = SelectSeq(advanced,
                                           LAMBDA e : e.id \notin toRemove),
                 !.visuals = [id \in FadeIds |->
                                IF \E i \in 1..Len(advanced) : advanced[i].id = id
                                THEN Shown(advanced[CHOOSE i \in 1..Len(advanced) :
                                                      advanced[i].id = id])
                                ELSE @[id]],
                 !.removed = toRemove])

\* Mutant: the requested frame left with the browser.
stopAllFadesKeepsFrame(f) ==
  [f EXCEPT !.activeFades = <<>>, !.isAnimating = FALSE,
            !.animationFrameId = NoFrame]

\* Lines 116-123.
stopAllFades(f) ==
  LET f1 == [f EXCEPT !.activeFades = <<>>, !.isAnimating = FALSE]
  IN IF f1.animationFrameId # NoFrame
     THEN [f1 EXCEPT !.rafPending = @ \ {f1.animationFrameId},
                     !.animationFrameId = NoFrame]
     ELSE f1

\* A plane that is not cached renders its placeholder opaque and its image
\* hidden (scene.tsx lines 201-231).
FadeInit ==
  /\ activeFades = <<>>
  /\ isAnimating = FALSE
  /\ animationFrameId = NoFrame
  /\ rafPending = {}
  /\ visuals = [id \in FadeIds |->
                  [imageOpacity |-> 0, placeholderOpacity |-> 100,
                   imageVisible |-> FALSE, placeholderVisible |-> TRUE,
                   depthWrite |-> FALSE]]
  /\ fadeLog = [op |-> "init", removed |-> {}, wasIdle |-> TRUE]
  /\ fadeTicks = [id \in FadeIds |-> 0]
  /\ fadeRemoved = [id \in FadeIds |-> FALSE]

\* -------------------------------------------------------------- plane cache

\* Capacity of the plane cache. The source sets 256; it is scaled down so that
\* the chunks below exceed it.
MAX_PLANE_CACHE == 2

PLANES_PER_CHUNK == 12

\* The chunks whose planes are asked for.
PlaneChunks == Chunks \cup {[cx |-> 0, cy |-> 0, cz |-> 1]}

\* Lines 19-46, as far as the plane ids `${cx}-${cy}-${cz}-${i}`; position,
\* scale and media index are left out.
generateChunkPlanes(c) ==
  [i \in 1..PLANES_PER_CHUNK |-> [id |-> <<c.cx, c.cy, c.cz, i - 1>>]]

PlaneKeys(entries) == {entries[i].key : i \in 1..Len(entries)}

\* Mutant: the value of the Map's first entry returned.
PlaneLookupFirst(entries, key) == entries[1].planes

\* planeCache.get(key).
PlaneLookup(entries, key) ==
  entries[CHOOSE i \in 1..Len(entries) : entries[i].key = key].planes

\* Mutant: nothing deleted.
ShrinkSkipped(p) == p

\* Lines 68-73: the first keys are deleted while the Map is over capacity.
RECURSIVE Shrink(_)
Shrink(p) ==
  IF Len(p.planeCache) > MAX_PLANE_CACHE
  THEN Shrink([p EXCEPT !.planeCache = Tail(@),
                        !.evicted = Append(@, p.planeCache[1].key)])
  ELSE p

\* Mutant: a hit returns the list and leaves the entry where it is.
generateChunkPlanesCachedNoPromote(p, c) ==
  LET key == ChunkKey(c)
  IN IF key \in PlaneKeys(p.planeCache)
     THEN [p EXCEPT !.hit = TRUE,
                    !.result = PlaneLookup(p.planeCache, key)]
     ELSE LET planes == generateChunkPlanes(c)
          IN Shrink([p EXCEPT !.planeCache =
                                Append(@, [key |-> key, planes |-> planes]),
                              !.result = planes])

\* Lines 52-79.
generateChunkPlanesCached(p, c) ==
  LET key == ChunkKey(c)
  IN IF key \in PlaneKeys(p.planeCache)
     THEN LET cached == PlaneLookup(p.planeCache, key)
          IN [p EXCEPT !.planeCache =
                         Append(SelectSeq(@, LAMBDA e : e.key # key),
                                [key |-> key, planes |-> cached]),
                       !.hit = TRUE,
                       !.result = cached]
     ELSE LET planes == generateChunkPlanes(c)
          IN Shrink([p EXCEPT !.planeCache =
                                Append(@, [key |-> key, planes |-> planes]),
                              !.result = planes])

PlaneInit ==
  /\ planeCache = <<>>
  /\ planeLog = [key |-> <<>>, hit |-> FALSE, evicted |-> <<>>, oldest |-> <<>>,
                 result |-> <<>>]
  /\ recency = <<>>
  /\ fifo = <<>>

\* ------------------------------------------------------------ chunk offsets

RENDER_DISTANCE == 2
CHUNK_FADE_MARGIN == 1
PRELOAD_DISTANCE == 4

Abs(x) == IF x < 0 THEN -x ELSE x

\* Math.max(Math.abs(dx), Math.abs(dy), Math.abs(dz)).
Chebyshev(o) == Max(Max(Abs(o.dx), Abs(o.dy)), Abs(o.dz))

\* Lines 46-56 of constants.ts: the pushes of the three nested loops, dx
\* outermost and dz innermost, each running from -maxDist to maxDist.
LoopOffsets(maxDist) ==
  LET w == 2 * maxDist + 1
      all == [n \in 1..(w * w * w) |->
                [dx |-> ((n - 1) \div (w * w)) - maxDist,
                 dy |-> (((n - 1) \div w) % w) - maxDist,
                 dz |-> ((n - 1) % w) - maxDist]]
      Near(o) == Chebyshev(o) <= maxDist
  IN SelectSeq(all, Near)

RECURSIVE SortFrom(_, _, _)
\* The offsets at distance d or more, those at distance d first and in the
\* order they have in the list.
SortFrom(offsets, d, last) ==
  IF d > last THEN <<>>
  ELSE LET AtDistance(o) == Chebyshev(o) = d
       IN SelectSeq(offsets, AtDistance) \o SortFrom(offsets, d + 1, last)

\* Lines 59-63 of constants.ts. Array.prototype.sort is stable, and the
\* comparator orders by distance: the nearest offsets come first, and offsets
\* equally far keep the order of the loops.
SortByDistance(offsets) ==
  LET last == IF offsets = <<>> THEN 0
              ELSE CHOOSE d \in {Chebyshev(offsets[i]) : i \in 1..Len(offsets)} :
                     \A i \in 1..Len(offsets) : Chebyshev(offsets[i]) <= d
  IN SortFrom(offsets, 0, last)

\* Mutant: the offsets left in the order of the loops.
computeChunkOffsetsUnsorted(maxDist) == LoopOffsets(maxDist)

computeChunkOffsets(maxDist) == SortByDistance(LoopOffsets(maxDist))

\* Chunks to render (visible + fade margin).
CHUNK_OFFSETS == computeChunkOffsets(RENDER_DISTANCE + CHUNK_FADE_MARGIN)

\* The filter of lines 76-77 of constants.ts.
BeyondRendered(o) == Chebyshev(o) > RENDER_DISTANCE + CHUNK_FADE_MARGIN

\* Chunks to preload (beyond visible, for overscan).
PRELOAD_CHUNK_OFFSETS ==
  SelectSeq(computeChunkOffsets(PRELOAD_DISTANCE), BeyondRendered)

\* The chunk at an offset from a chunk.
ChunkAt(centre, o) ==
  [cx |-> centre.cx + o.dx, cy |-> centre.cy + o.dy, cz |-> centre.cz + o.dz]

\* The list handed to setChunks (scene.tsx, lines 520-528 and 589-596):
\* CHUNK_OFFSETS moved to a chunk, each entry with its key.
ChunkList(centre) ==
  [i \in 1..Len(CHUNK_OFFSETS) |->
     LET c == ChunkAt(centre, CHUNK_OFFSETS[i])
     IN [key |-> ChunkKey(c), cx |-> c.cx, cy |-> c.cy, cz |-> c.cz]]

\* The active chunk set: the scene's chunk list.
ActiveChunks == ChunkList(chunks)

\* The chunks whose media a batch issued at a chunk covers (lines 545-564).
PreloadChunks(centre) ==
  {ChunkAt(centre, PRELOAD_CHUNK_OFFSETS[i]) :
     i \in 1..Len(PRELOAD_CHUNK_OFFSETS)}

\* ----------------------------------------------------------- overscan batch

\* A velocity component in hundredths of a world unit per frame.
VelocityAxis == {-1, 0, 1, 2}

Velocities == [x : VelocityAxis, y : VelocityAxis, z : VelocityAxis]

\* media.length: the number of media items the host passes.
MediaCount == 60

\* mediaIndex is Math.floor(r(5) * 1_000_000) with r a pseudo-random number
\* taken from Math.sin of a hash of the coordinate and the plane's index, so
\* it is some function of the two with values in 0..999999; this is an
\* integer function of that kind.
mediaIndex(c, i) ==
  ((c.cx * 3 + c.cy * 5 + c.cz * 7 + 5) * (i + 1)) % 1000000

\* Lines 552-553: the dot product of an offset with the velocity.
Dot(o, v) == o.dx * v.x + o.dy * v.y + o.dz * v.z

\* The largest dot product an offset of the list can have.
MaxDot(v) == PRELOAD_DISTANCE * (Abs(v.x) + Abs(v.y) + Abs(v.z))

\* Array.prototype.sort is stable: the offsets of dot product d in the order
\* they have in the list, for d from the largest down to last.
RECURSIVE SortDown(_, _, _, _)
SortDown(offsets, v, d, last) ==
  IF d < last THEN <<>>
  ELSE SelectSeq(offsets, LAMBDA o : Dot(o, v) = d)
         \o SortDown(offsets, v, d - 1, last)

\* Mutant: the offsets left in the order of the list.
SortByVelocityUnsorted(offsets, v) == offsets

\* Lines 550-555: [...PRELOAD_CHUNK_OFFSETS].sort((a, b) => dotB - dotA).
SortByVelocity(offsets, v) == SortDown(offsets, v, MaxDot(v), -MaxDot(v))

\* Lines 565-570: the planes of one chunk, from plane i on; k is the index of
\* the chunk's offset in sortedOffsets.
RECURSIVE AddPlanes(_, _, _, _)
AddPlanes(acc, c, k, i) ==
  IF i >= PLANES_PER_CHUNK THEN acc
  ELSE LET mediaItem == mediaIndex(c, i) % MediaCount
       IN IF mediaItem \in Range(acc.items)
          THEN AddPlanes(acc, c, k, i + 1)
          ELSE AddPlanes([items |-> Append(acc.items, mediaItem),
                          from |-> Append(acc.from, k)],
                         c, k, i + 1)

\* Lines 558-571: the loop over sortedOffsets for the offsets lo..hi in their
\* order; the first half of the range is done, then the second, which starts
\* from what the first half has queued (compared with acc so that it is
\* computed before the second half starts).
RECURSIVE AddChunks(_, _, _, _, _)
AddChunks(acc, sorted, centre, lo, hi) ==
  IF lo > hi THEN acc
  ELSE IF lo = hi
  THEN AddPlanes(acc, ChunkAt(centre, sorted[lo]), lo, 0)
  ELSE LET mid == (lo + hi) \div 2
           half == AddChunks(acc, sorted, centre, lo, mid)
       IN IF half = acc
          THEN AddChunks(acc, sorted, centre, mid + 1, hi)
          ELSE AddChunks(half, sorted, centre, mid + 1, hi)

BatchInit ==
  /\ batchVelocity = [x |-> 0, y |-> 0, z |-> 0]
  /\ batchCentre = [cx |-> 0, cy |-> 0, cz |-> 0]
  /\ sortedOffsets = <<>>
  /\ preloadItems = <<>>
  /\ itemFrom = <<>>

\* ----------------------------------------------------------- camera motion

\* Lengths and velocities are in hundredths of a world unit, factors in
\* hundredths: 3.2, 0.16, 0.9, 0.18.
MAX_VELOCITY == 320
VELOCITY_LERP == 16
VELOCITY_DECAY == 90
KEYBOARD_SPEED == 18

\* World units.
CHUNK_SIZE == 110
INITIAL_CAMERA_Z == 50

\* window.innerWidth and window.innerHeight, in px.
InnerWidth == 2000
InnerHeight == 1000

\* The frames of a run.
MaxTicks == 3

\* The input events the browser delivers between two frames.
MaxInputs == 1

\* useIsTouchDevice(): the device has a mouse.
isTouchDevice == FALSE

\* x * num / den, rounded towards zero: a product with a decimal factor.
Times(x, num, den) ==
  IF x >= 0 THEN (x * num) \div den ELSE -(((-x) * num) \div den)

\* Mutant: the bounds ignored.
clampNothing(value, min, max) == value

\* vite.config.ts, lines 173-174.
clamp(value, min, max) == Min(Max(value, min), max)

\* vite.config.ts, lines 182-183; t is in hundredths.
lerp(a, b, t) == a + Times(b - a, t, 100)

\* Math.floor(x / CHUNK_SIZE) for each axis of a position.
ChunkOf(pos) ==
  [cx |-> pos.x \div (CHUNK_SIZE * 100), cy |-> pos.y \div (CHUNK_SIZE * 100),
   cz |-> pos.z \div (CHUNK_SIZE * 100)]

\* The motion state as one record.
Phys ==
  [velocity |-> velocity, targetVel |-> targetVel, basePos |-> basePos,
   drift |-> drift, mouse |-> mouse, lastMouse |-> lastMouse,
   scrollAccum |-> scrollAccum, isDragging |-> isDragging,
   cameraPosition |-> cameraPosition, clamped |-> FALSE]

\* Where the pointer is in the events: the middle of the window, right and
\* up, far left.
Pointers ==
  {[clientX |-> 1900, clientY |-> 300], [clientX |-> 100, clientY |-> 500]}

\* deltaY of the wheel events.
WheelDeltas == {100}

\* What getKeys() returns: no key, or left with forward.
KeySets ==
  {[forward |-> FALSE, backward |-> FALSE, left |-> FALSE, right |-> FALSE,
    up |-> FALSE, down |-> FALSE],
   [forward |-> TRUE, backward |-> FALSE, left |-> TRUE, right |-> FALSE,
    up |-> FALSE, down |-> FALSE]}

\* Lines 339-343.
onMouseDown(s, e) ==
  [s EXCEPT !.isDragging = TRUE,
            !.lastMouse = [x |-> e.clientX, y |-> e.clientY]]

\* Lines 345-348.
onMouseUp(s) == [s EXCEPT !.isDragging = FALSE]

\* Lines 350-354.
onMouseLeave(s) ==
  [s EXCEPT !.mouse = [x |-> 0, y |-> 0], !.isDragging = FALSE]

\* Mutant: the impulse added whether or not a button is held.
onMouseMoveAlwaysDrags(s, e) ==
  [s EXCEPT
     !.mouse = [x |-> (e.clientX * 200) \div InnerWidth - 100,
                y |-> 100 - (e.clientY * 200) \div InnerHeight],
     !.targetVel = [@ EXCEPT !.x = @ - Times(e.clientX - s.lastMouse.x, 25, 10),
                             !.y = @ + Times(e.clientY - s.lastMouse.y, 25, 10)],
     !.lastMouse = [x |-> e.clientX, y |-> e.clientY]]

\* Lines 356-367. The impulse is 0.025 per px, 2.5 hundredths.
onMouseMove(s, e) ==
  LET s1 == [s EXCEPT
               !.mouse = [x |-> (e.clientX * 200) \div InnerWidth - 100,
                          y |-> 100 - (e.clientY * 200) \div InnerHeight]]
  IN IF s.isDragging
     THEN [s1 EXCEPT
             !.targetVel =
                [@ EXCEPT !.x = @ - Times(e.clientX - s.lastMouse.x, 25, 10),
                          !.y = @ + Times(e.clientY - s.lastMouse.y, 25, 10)],
             !.lastMouse = [x |-> e.clientX, y |-> e.clientY]]
     ELSE s1

\* Lines 369-372: 0.006 per unit of deltaY, 0.6 hundredths.
onWheel(s, e) == [s EXCEPT !.scrollAccum = @ + Times(e, 6, 10)]

\* Lines 442-449.
KeyboardInput(tv, keys) ==
  [x |-> tv.x - (IF keys.left THEN KEYBOARD_SPEED ELSE 0)
              + (IF keys.right THEN KEYBOARD_SPEED ELSE 0),
   y |-> tv.y - (IF keys.down THEN KEYBOARD_SPEED ELSE 0)
              + (IF keys.up THEN KEYBOARD_SPEED ELSE 0),
   z |-> tv.z - (IF keys.forward THEN KEYBOARD_SPEED ELSE 0)
              + (IF keys.backward THEN KEYBOARD_SPEED ELSE 0)]

\* Lines 451-465: the drift after the frame.
MouseDrift(s) ==
  LET isZooming == Abs(s.velocity.z) > 5
      zoomFactor == clamp(Times(s.basePos.z, 1, 50), 30, 200)
      driftAmount == 8 * zoomFactor
      driftLerp == IF isZooming THEN 20 ELSE 12
  IN IF s.isDragging THEN s.drift
     ELSE IF isTouchDevice
     THEN [x |-> lerp(s.drift.x, 0, driftLerp),
           y |-> lerp(s.drift.y, 0, driftLerp)]
     ELSE [x |-> lerp(s.drift.x, Times(s.mouse.x * driftAmount, 1, 100),
                      driftLerp),
           y |-> lerp(s.drift.y, Times(s.mouse.y * driftAmount, 1, 100),
                      driftLerp)]

\* Lines 442-496: the frame callback up to the chunk coordinates.
PhysicsFrame(s, keys) ==
  LET pressed == KeyboardInput(s.targetVel, keys)
      scrolled == [pressed EXCEPT !.z = @ + s.scrollAccum]
      clamped == [x |-> clamp(scrolled.x, -MAX_VELOCITY, MAX_VELOCITY),
                  y |-> clamp(scrolled.y, -MAX_VELOCITY, MAX_VELOCITY),
                  z |-> clamp(scrolled.z, -MAX_VELOCITY, MAX_VELOCITY)]
      vel == [x |-> lerp(s.velocity.x, clamped.x, VELOCITY_LERP),
              y |-> lerp(s.velocity.y, clamped.y, VELOCITY_LERP),
              z |-> lerp(s.velocity.z, clamped.z, VELOCITY_LERP)]
      pos == [x |-> s.basePos.x + vel.x, y |-> s.basePos.y + vel.y,
              z |-> s.basePos.z + vel.z]
      dr == MouseDrift(s)
  IN [s EXCEPT
        !.drift = dr,
        !.scrollAccum = Times(@, 8, 10),
        !.velocity = vel,
        !.basePos = pos,
        !.cameraPosition = [x |-> pos.x + dr.x, y |-> pos.y + dr.y,
                            z |-> pos.z],
        !.targetVel = [x |-> Times(clamped.x, VELOCITY_DECAY, 100),
                       y |-> Times(clamped.y, VELOCITY_DECAY, 100),
                       z |-> Times(clamped.z, VELOCITY_DECAY, 100)],
        !.clamped = scrolled # clamped]

\* createInitialState(INITIAL_CAMERA_Z), and the camera where the Canvas
\* puts it (line 685).
PhysInit ==
  /\ velocity = [x |-> 0, y |-> 0, z |-> 0]
  /\ targetVel = [x |-> 0, y |-> 0, z |-> 0]
  /\ basePos = [x |-> 0, y |-> 0, z |-> INITIAL_CAMERA_Z * 100]
  /\ drift = [x |-> 0, y |-> 0]
  /\ mouse = [x |-> 0, y |-> 0]
  /\ lastMouse = [x |-> 0, y |-> 0]
  /\ scrollAccum = 0
  /\ isDragging = FALSE
  /\ cameraPosition = [x |-> 0, y |-> 0, z |-> INITIAL_CAMERA_Z * 100]
  /\ physLog = [op |-> "none", clamped |-> FALSE]
  /\ physTicks = 0
  /\ physInputs = 0

\* ------------------------------------------------------------ scene startup

\* The scene controller's startup state as one record.
Scene ==
  [mounted |-> mounted, isPreloaded |-> isPreloaded, isLoaded |-> isLoaded,
   composed |-> composed]

\* Lines 318-323: the then callback of preloadAllTextures' promise.
OnPreloaded(sc) ==
  IF sc.mounted
  THEN [sc EXCEPT !.isPreloaded = TRUE, !.isLoaded = TRUE]
  ELSE sc

\* Mutant: the chunks returned whether or not the preload is over.
RenderSceneUngated(sc) == [sc EXCEPT !.composed = TRUE]

\* Lines 599-617: what a render of SceneController returns.
RenderScene(sc) ==
  IF ~sc.isPreloaded THEN sc
  ELSE [sc EXCEPT !.composed = TRUE]

SceneInit ==
  /\ mounted = TRUE
  /\ isPreloaded = FALSE
  /\ isLoaded = FALSE
  /\ thenRan = FALSE
  /\ composed = FALSE

RetryInit == failedWaiters = [u \in URLs |-> <<>>]

\* ------------------------------------------------------------- media planes

\* The planes of the scene: each has the fade id of the same name.
PlaneNumber(id) == IF id = "p1" THEN 1 ELSE 2

\* The onLoad closure of a plane's effect (line 162).
PlaneClosure(id) == <<"plane", PlaneNumber(id)>>

\* The plane whose effect made a closure.
PlaneOf(cb) == CHOOSE id \in FadeIds : PlaneClosure(id) = cb

\* The media the planes show.
PlaneUrls == {"a", "b"}

\* What the planes' code reads and writes: the planes, the loader, the fade
\* manager with the scene objects, and the history.
World ==
  [planes |-> mediaPlanes, loader |-> State, fades |-> Fades,
   history |-> planeHistory, started |-> {}, removed |-> {}]

\* Lines 142-155 and 198-233: the render of a plane for a media item. The
\* props of the two meshes and materials are set from isCached.
RenderPlane(w, id, url) ==
  LET isCached == getCachedTexture(w.loader, url) # "null"
  IN [w EXCEPT
        !.planes = [@ EXCEPT ![id] =
           [phase |-> "rendered", url |-> url, isCached |-> isCached,
            applied |-> isCached, attached |-> TRUE, cleanup |-> FALSE,
            map |-> getCachedTexture(w.loader, url)]],
        !.fades = [@ EXCEPT !.visuals = [@ EXCEPT ![id] =
           [imageOpacity |-> IF isCached THEN 100 ELSE 0,
            placeholderOpacity |-> IF isCached THEN 0 ELSE 100,
            imageVisible |-> isCached,
            placeholderVisible |-> ~isCached,
            depthWrite |-> isCached]]]]

\* Mutant: the texture applied without looking at the refs.
OnTextureNoRefCheck(w, id, url) ==
  IF w.planes[id].applied THEN w
  ELSE [w EXCEPT !.planes = [@ EXCEPT ![id] = [@ EXCEPT !.map = url,
                                                         !.applied = TRUE]],
                 !.fades = startFade(@, id),
                 !.started = @ \cup {id},
                 !.history = [@ EXCEPT ![id] = [@ EXCEPT !.fades = @ + 1]]]

\* Lines 162-189: the plane's onLoad closure, called with a texture.
OnTexture(w, id, url) ==
  IF w.planes[id].applied THEN w
  ELSE IF ~w.planes[id].attached THEN w
  ELSE [w EXCEPT !.planes = [@ EXCEPT ![id] = [@ EXCEPT !.map = url,
                                                         !.applied = TRUE]],
                 !.fades = startFade(@, id),
                 !.started = @ \cup {id},
                 !.history = [@ EXCEPT ![id] = [@ EXCEPT !.fades = @ + 1]]]

\* The loader's onLoad calls of one step, run in the order it made them.
RECURSIVE RunCallbacks(_, _)
RunCallbacks(w, calls) ==
  IF calls = <<>> THEN w
  ELSE LET cb == calls[1][1]
           w1 == IF cb[1] = "plane"
                 THEN OnTexture(w, PlaneOf(cb), calls[1][2])
                 ELSE w
       IN RunCallbacks(w1, Tail(calls))

\* The loader's step, then the closures it called.
AfterLoader(w, s) == RunCallbacks([w EXCEPT !.loader = s], s.delivered)

\* Mutant: the request made whether or not the texture was applied.
PlaneEffectAlwaysRequests(w, id) ==
  LET url == w.planes[id].url
      w1 == [w EXCEPT !.planes = [@ EXCEPT ![id] = [@ EXCEPT
                                    !.phase = "mounted", !.cleanup = TRUE]],
                      !.history = [@ EXCEPT ![id] =
                                     [@ EXCEPT !.requests = @ + 1]]]
  IN AfterLoader(w1, getTexture(w1.loader, url, PlaneClosure(id)))

\* Lines 158-196: the plane's effect, run after its first commit.
PlaneEffect(w, id) ==
  IF w.planes[id].applied
  THEN [w EXCEPT !.planes = [@ EXCEPT ![id] = [@ EXCEPT !.phase = "mounted"]]]
  ELSE LET url == w.planes[id].url
           w1 == [w EXCEPT !.planes = [@ EXCEPT ![id] = [@ EXCEPT
                                         !.phase = "mounted", !.cleanup = TRUE]],
                           !.history = [@ EXCEPT ![id] =
                                          [@ EXCEPT !.requests = @ + 1]]]
       IN AfterLoader(w1, getTexture(w1.loader, url, PlaneClosure(id)))

\* The plane leaves the scene: React clears its refs and runs the cleanup the
\* effect returned, if it returned one (lines 192-195).
UnmountPlane(w, id) ==
  LET w1 == [w EXCEPT !.planes = [@ EXCEPT ![id] = [@ EXCEPT
                                    !.phase = "unmounted",
                                    !.attached = FALSE]]]
  IN IF w.planes[id].cleanup
     THEN [w1 EXCEPT !.fades = removeFade(@, id),
                     !.removed = @ \cup {id},
                     !.planes = [@ EXCEPT ![id] = [@ EXCEPT !.applied = FALSE]]]
     ELSE w1

MediaInit ==
  /\ mediaPlanes = [id \in FadeIds |->
                      [phase |-> "none", url |-> "null", isCached |-> FALSE,
                       applied |-> FALSE, attached |-> FALSE,
                       cleanup |-> FALSE, map |-> "null"]]
  /\ planeHistory = [id \in FadeIds |-> [requests |-> 0, fades |-> 0]]

Init ==
  /\ LoaderInit
  /\ ControllerInit
  /\ FadeInit
  /\ PlaneInit
  /\ SceneInit
  /\ RetryInit
  /\ MediaInit
  /\ BatchInit
  /\ PhysInit

\* What the step leaves alone: the loader's steps touch nothing else.
Loader(s, op, used, handed) ==
  /\ Assign(s, op, used, handed)
  /\ UNCHANGED <<controllerVars, fadeVars, planeVars,
                 sceneVars, retryVars, mediaVars, batchVars,
                 physVars>>

\* A closure handed over again while it still waits is the same waiter.
HandOver(waiting, cb) ==
  IF \E i \in 1..Len(waiting) : waiting[i] = cb THEN waiting
  ELSE waiting \o <<cb>>

\* The host calls getTexture(item, onLoad) with one of its closures.
Request ==
  \E url \in URLs, onLoad \in UserCallbacks :
    Loader(getTexture(State, url, onLoad), <<"request", url>>, {url},
           IF url \in textureCache THEN registered
           ELSE [registered EXCEPT ![url] = HandOver(@, onLoad)])

\* The host calls getTexture(item).
RequestPlain ==
  \E url \in URLs :
    Loader(getTexture(State, url, NoCallback), <<"request", url>>, {url},
           registered)

\* The batches the scene hands to preloadTextures: it never lists a media
\* item twice (scene.tsx line 567).
Batches ==
  {items \in SeqsUpTo(URLs, MaxBatch) :
     \A i, j \in 1..Len(items) : items[i] = items[j] => i = j}

\* The host calls preloadTextures(items).
Preload ==
  \E items \in Batches :
    Loader(preloadTextures(State, items), <<"preload", "null">>, {},
           registered)

\* The closures preloadAllTextures hands to getTexture: one per uncached item.
RECURSIVE HandItems(_, _, _)
HandItems(reg, items, i) ==
  IF i > Len(items) THEN reg
  ELSE IF items[i] \in textureCache THEN HandItems(reg, items, i + 1)
  ELSE HandItems([reg EXCEPT ![items[i]] = Append(@, <<"item", i>>)],
                 items, i + 1)

\* The host calls preloadAllTextures(items, onProgress), once per mount.
PreloadAll ==
  /\ promise.status = "none"
  /\ \E items \in SeqsUpTo(URLs, MaxItems) :
       Loader(preloadAllTextures(State, items), <<"preloadAll", "null">>,
              Range(items) \ textureCache, HandItems(registered, items, 1))

\* The host reads the cache directly (MediaPlane's render, scene.tsx line 144).
CachedLookup ==
  \E url \in URLs :
    Loader(State, <<"lookup", getCachedTexture(State, url)>>, {}, registered)

\* An awaited loadImageBitmap resolves.
FetchSucceeds ==
  \E url \in URLs :
    /\ fetches[url] > 0
    /\ Loader(LoadResolved(State, url), <<"loaded", url>>, {url}, registered)

\* An awaited loadImageBitmap rejects (fetch, blob or decode failed).
FetchFails ==
  \E url \in URLs :
    /\ fetches[url] > 0
    /\ Loader(LoadRejected(State, url), <<"failed", url>>, {}, registered)

RECURSIVE SumOver(_, _)
SumOver(f, S) ==
  IF S = {} THEN 0
  ELSE LET x == CHOOSE x \in S : TRUE IN f[x] + SumOver(f, S \ {x})

\* Fetch+decode operations in flight.
InFlight == SumOver(fetches, URLs)

\* clearTextureCache is called with at most MaxStale fetches in flight.
MaxStale == 1

\* The host clears the cache.
ClearCache ==
  /\ InFlight <= MaxStale
  /\ Loader(clearTextureCache(State), <<"clear", "null">>, {}, registered)

\* Time passes between two tasks.
Tick ==
  /\ now < MaxTime
  /\ Loader([State EXCEPT !.now = @ + 1], <<"tick", "null">>, {}, registered)

\* The loader with its waiters: requests with closures, preloads, the startup
\* preloadAll and the fetches' outcomes, within one reading of the clock.
Next ==
  \/ Request
  \/ Preload
  \/ PreloadAll
  \/ FetchSucceeds
  \/ FetchFails

Spec == Init /\ [][Next]_vars

\* The loader with its clock: requests, preloads, direct cache reads and the
\* fetches' outcomes as time passes.
NextLru ==
  \/ RequestPlain
  \/ Preload
  \/ CachedLookup
  \/ FetchSucceeds
  \/ FetchFails
  \/ Tick

SpecLru == Init /\ [][NextLru]_vars

\* A loader step with the history of the failed loads kept: the closures on
\* a url's wait list when its load fails are remembered until the step after
\* the url's next successful load.
Tracked(s, op, used, handed) ==
  /\ Assign(s, op, used, handed)
  /\ failedWaiters' =
       [u \in URLs |->
          IF op = <<"failed", u>> THEN loadCallbacks[u]
          ELSE IF lastOp = <<"loaded", u>> THEN <<>>
          ELSE failedWaiters[u]]
  /\ UNCHANGED <<controllerVars, fadeVars, planeVars,
                 sceneVars, mediaVars, batchVars,
                 physVars>>

\* The host calls getTexture(item, onLoad) with one of its closures.
RetryRequest ==
  \E url \in URLs, onLoad \in UserCallbacks :
    Tracked(getTexture(State, url, onLoad), <<"request", url>>, {url},
            IF url \in textureCache THEN registered
            ELSE [registered EXCEPT ![url] = HandOver(@, onLoad)])

\* An awaited loadImageBitmap resolves.
RetrySucceeds ==
  \E url \in URLs :
    /\ fetches[url] > 0
    /\ Tracked(LoadResolved(State, url), <<"loaded", url>>, {url}, registered)

\* An awaited loadImageBitmap rejects.
RetryFails ==
  \E url \in URLs :
    /\ fetches[url] > 0
    /\ Tracked(LoadRejected(State, url), <<"failed", url>>, {}, registered)

\* Requests with closures that are repeated after a load has failed.
NextRetry ==
  \/ RetryRequest
  \/ RetrySucceeds
  \/ RetryFails

SpecRetry == Init /\ [][NextRetry]_vars

\* The loader when the host also clears the cache.
NextClear ==
  \/ RequestPlain
  \/ Preload
  \/ FetchSucceeds
  \/ FetchFails
  \/ ClearCache

SpecClear == Init /\ [][NextClear]_vars

\* Churn: requests and preloads that all load, as time passes.
NextChurn ==
  \/ RequestPlain
  \/ Preload
  \/ FetchSucceeds
  \/ Tick

SpecChurn == Init /\ [][NextChurn]_vars

\* The awaited loadImageBitmap of url rejects.
FetchRejects(url) ==
  /\ fetches[url] > 0
  /\ Loader(LoadRejected(State, url), <<"failed", url>>, {}, registered)

\* Draining: requests, preloads and the fetches' outcomes, where no fetch
\* stays in flight for ever (the network answers or gives up). A fetch that
\* resolves leaves FetchRejects(url) disabled, so the weak fairness of
\* FetchRejects(url) rules out exactly the behaviours in which the fetch of
\* url is started and never settles, one way or the other.
NextDrain ==
  \/ RequestPlain
  \/ Preload
  \/ FetchSucceeds
  \/ FetchFails

SpecDrain ==
  Init /\ [][NextDrain]_vars /\ \A url \in URLs : WF_vars(FetchRejects(url))

\* One frame: the position update of lines 443-496 moves the camera by at most
\* MAX_VELOCITY per axis, that is within its chunk or into an adjacent one, and
\* leaves some |velocity.z|; the rest of the callback follows. The media of
\* the overscan chunks (lines 545-571) are some list without repetition; the
\* plane lists they are read from come through the plane cache, whose calls
\* are the PlaneGet steps.
\* performance.now() is kept relative to a sliding origin once it passes
\* MaxNow: the callback compares only differences of times with intervals of
\* at most 500 ms, so a time more than MaxNow ago is as good as MaxNow ago.
Rebase(x, shift) == IF x < 0 THEN x ELSE Max(0, x - shift)

FrameWith(gap, coord, zoom, batches) ==
  LET t == frameNow + gap
      shift == Max(0, t - MaxNow)
      c == useFrame(Controller, coord, speedZ, zoom, t)
  IN /\ frameNow' = Rebase(t, shift)
     /\ camChunk' = coord
     /\ speedZ' = zoom
     /\ lastChunkKey' = c.lastChunkKey
     /\ lastChunkUpdate' = Rebase(c.lastChunkUpdate, shift)
     /\ pendingChunk' = c.pendingChunk
     /\ lastPreloadUpdate' = Rebase(c.lastPreloadUpdate, shift)
     /\ lastPreloadKey' = c.lastPreloadKey
     /\ chunks' = c.chunks
     /\ frameLog' = c.log
     /\ appliedAt' = Rebase(IF c.log.applied THEN t ELSE appliedAt, shift)
     /\ sinceUpdate' = IF c.log.applied /\ appliedAt >= 0 THEN t - appliedAt
                      ELSE -1
     /\ sincePreload' = t - lastPreloadUpdate
     /\ IF c.log.preloaded
        THEN \E items \in batches :
               IF items # <<>>
               THEN Assign(preloadTextures(State, items),
                           <<"preload", "null">>, {}, registered)
               ELSE UNCHANGED loaderVars
        ELSE UNCHANGED loaderVars
     /\ UNCHANGED <<fadeVars, planeVars, sceneVars,
                    retryVars, mediaVars, batchVars,
                 physVars>>

Frame ==
  \E gap \in FrameGaps, coord \in Chunks, zoom \in ZoomSpeeds :
    /\ frameNow + gap <= MaxNow
    /\ FrameWith(gap, coord, zoom, Batches)

\* The media one overscan batch collects, in the runs where frames never stop.
OneBatch == {<<"a">>}

\* Milliseconds between two frames in those runs.
TickGaps == {100, 200}

\* The chunks the camera moves between in those runs.
TwoChunks == {c \in Chunks : c.cy = 0}

\* A frame at any time: the render loop calls the callback for every frame.
FrameOn ==
  \E gap \in TickGaps, coord \in TwoChunks, zoom \in ZoomSpeeds :
    FrameWith(gap, coord, zoom, OneBatch)

\* Frames keep ticking.
NextFrames == FrameOn

SpecFrames == Init /\ [][NextFrames]_vars /\ WF_vars(FrameOn)

\* The same frames, with nothing said about how long they go on.
SpecTicks == Init /\ [][NextFrames]_vars

\* A frame with no input and no velocity: the camera stays where it is.
FrameAtRest == \E gap \in FrameGaps : FrameWith(gap, camChunk, 0, Batches)

\* The frames of a camera that is never moved.
NextRest == FrameAtRest

SpecRest == Init /\ [][NextRest]_vars

\* The camera controller: frames, as the camera moves and zooms.
NextController == Frame

SpecController == Init /\ [][NextController]_vars

\* The fade step's effect on the fade manager and the scene objects.
AssignFades(f, op) ==
  /\ activeFades' = f.activeFades
  /\ isAnimating' = f.isAnimating
  /\ animationFrameId' = f.animationFrameId
  /\ rafPending' = f.rafPending
  /\ visuals' = f.visuals
  /\ fadeLog' = [op |-> op, removed |-> f.removed, wasIdle |-> ~isAnimating]
  /\ UNCHANGED <<loaderVars, controllerVars, planeVars,
                 sceneVars, retryVars, mediaVars, batchVars,
                 physVars>>

\* A plane's texture arrives and its onLoad calls startFade (scene.tsx 182).
StartFade ==
  \E id \in FadeIds :
    /\ AssignFades(startFade(Fades, id), "start")
    /\ fadeTicks' = [fadeTicks EXCEPT ![id] = 0]
    /\ fadeRemoved' = [fadeRemoved EXCEPT ![id] = FALSE]

\* A plane unmounts and its cleanup calls removeFade (scene.tsx 193).
RemoveFade ==
  \E id \in FadeIds :
    /\ AssignFades(removeFade(Fades, id), "remove")
    /\ fadeRemoved' = [fadeRemoved EXCEPT ![id] = TRUE]
    /\ UNCHANGED fadeTicks

\* The browser runs a requested animate callback.
AnimationFrame ==
  \E h \in rafPending :
    /\ AssignFades(animate([Fades EXCEPT !.rafPending = @ \ {h}]), "tick")
    /\ fadeTicks' = [id \in FadeIds |->
                       IF id \in FadeKeys(activeFades) THEN fadeTicks[id] + 1
                       ELSE fadeTicks[id]]
    /\ UNCHANGED fadeRemoved

\* The host calls stopAllFades.
StopAllFades ==
  /\ AssignFades(stopAllFades(Fades), "stop")
  /\ UNCHANGED <<fadeTicks, fadeRemoved>>

\* The fade manager: fades started and removed by the planes, and the ticks.
NextFade ==
  \/ StartFade
  \/ RemoveFade
  \/ AnimationFrame
  \/ StopAllFades

SpecFade == Init /\ [][NextFade]_vars

\* A Chunk renders, or a frame collects the media of an overscan chunk:
\* generateChunkPlanesCached(cx, cy, cz) (scene.tsx lines 256 and 564).
PlaneGet ==
  \E c \in PlaneChunks :
    LET key == ChunkKey(c)
        p == generateChunkPlanesCached(
               [planeCache |-> planeCache, hit |-> FALSE, evicted |-> <<>>,
                result |-> <<>>], c)
    IN /\ planeCache' = p.planeCache
       /\ planeLog' = [key |-> key, hit |-> p.hit, evicted |-> p.evicted,
                       oldest |-> IF fifo = <<>> THEN <<>> ELSE fifo[1],
                       result |-> p.result]
       /\ recency' = Append(SelectSeq(recency, LAMBDA k : k # key), key)
       /\ fifo' = SelectSeq(IF p.hit THEN fifo ELSE Append(fifo, key),
                            LAMBDA k : k \notin Range(p.evicted))
       /\ UNCHANGED <<loaderVars, controllerVars, fadeVars,
                      sceneVars, retryVars, mediaVars, batchVars,
                 physVars>>

\* The plane cache under any sequence of calls.
NextPlanes == PlaneGet

SpecPlanes == Init /\ [][NextPlanes]_vars

\* The step's effect on the scene controller's startup state.
AssignScene(sc, ran) ==
  /\ mounted' = sc.mounted
  /\ isPreloaded' = sc.isPreloaded
  /\ isLoaded' = sc.isLoaded
  /\ composed' = sc.composed
  /\ thenRan' = ran
  /\ UNCHANGED <<loaderVars, controllerVars, fadeVars,
                 planeVars, retryVars, mediaVars, batchVars,
                 physVars>>

\* The microtask of the resolved promise runs the then callback.
PromiseThen ==
  /\ promise.status = "resolved"
  /\ ~thenRan
  /\ AssignScene(OnPreloaded(Scene), TRUE)

\* React renders SceneController while it is mounted.
Render ==
  /\ mounted
  /\ AssignScene(RenderScene(Scene), thenRan)

\* The scene unmounts: the effect's cleanup (lines 324-326).
Unmount ==
  /\ promise.status # "none"
  /\ mounted
  /\ AssignScene([Scene EXCEPT !.mounted = FALSE], thenRan)

\* Startup: the mount effect's preloadAllTextures, the fetches' outcomes, the
\* promise's continuation and the renders.
NextScene ==
  \/ PreloadAll
  \/ FetchSucceeds
  \/ FetchFails
  \/ PromiseThen
  \/ Render
  \/ Unmount

SpecScene == Init /\ [][NextScene]_vars

\* A step of the planes' code: its effect on the planes, the loader and the
\* fade manager.
AssignWorld(w, op, used) ==
  /\ mediaPlanes' = w.planes
  /\ planeHistory' = w.history
  /\ Assign(w.loader, op, used,
            [u \in URLs |->
               LET asked == {id \in FadeIds :
                              /\ w.planes[id].url = u
                              /\ w.history[id].requests >
                                   planeHistory[id].requests
                              /\ u \notin textureCache}
               IN IF asked = {} THEN registered[u]
                  ELSE HandOver(registered[u],
                                PlaneClosure(CHOOSE id \in asked : TRUE))])
  /\ activeFades' = w.fades.activeFades
  /\ isAnimating' = w.fades.isAnimating
  /\ animationFrameId' = w.fades.animationFrameId
  /\ rafPending' = w.fades.rafPending
  /\ visuals' = w.fades.visuals
  /\ fadeLog' = [op |-> "plane", removed |-> {}, wasIdle |-> ~isAnimating]
  /\ fadeTicks' = [id \in FadeIds |->
                     IF id \in w.started THEN 0 ELSE fadeTicks[id]]
  /\ fadeRemoved' = [id \in FadeIds |->
                       IF id \in w.started THEN FALSE
                       ELSE IF id \in w.removed THEN TRUE
                       ELSE fadeRemoved[id]]
  /\ UNCHANGED <<controllerVars, planeVars, sceneVars, retryVars, batchVars,
                 physVars>>

\* A Chunk renders a plane for one of the media.
PlaneRenders ==
  \E id \in FadeIds, url \in PlaneUrls :
    /\ mediaPlanes[id].phase = "none"
    /\ AssignWorld(RenderPlane(World, id, url), <<"render", url>>, {})

\* React runs the effect of a plane it has committed.
PlaneMounts ==
  \E id \in FadeIds :
    /\ mediaPlanes[id].phase = "rendered"
    /\ AssignWorld(PlaneEffect(World, id),
                   <<"effect", mediaPlanes[id].url>>,
                   IF mediaPlanes[id].applied THEN {}
                   ELSE {mediaPlanes[id].url})

\* The plane's chunk leaves the active set.
PlaneUnmounts ==
  \E id \in FadeIds :
    /\ mediaPlanes[id].phase = "mounted"
    /\ AssignWorld(UnmountPlane(World, id),
                   <<"unmount", mediaPlanes[id].url>>, {})

\* An awaited loadImageBitmap resolves, and the waiting closures run.
MediaLoads ==
  \E url \in URLs :
    /\ fetches[url] > 0
    /\ AssignWorld(AfterLoader(World, LoadResolved(State, url)),
                   <<"loaded", url>>, {url})

\* An awaited loadImageBitmap rejects.
MediaFails ==
  \E url \in URLs :
    /\ fetches[url] > 0
    /\ AssignWorld(AfterLoader(World, LoadRejected(State, url)),
                   <<"failed", url>>, {})

\* The planes of the scene with the loader and the fade manager.
NextMedia ==
  \/ PlaneRenders
  \/ PlaneMounts
  \/ PlaneUnmounts
  \/ MediaLoads
  \/ MediaFails
  \/ AnimationFrame

SpecMedia == Init /\ [][NextMedia]_vars

\* A frame whose preload check does not pass: the camera's velocity and chunk
\* change (lines 438-503), and the frame computes no batch.
Glide ==
  \E v \in Velocities, centre \in TwoChunks :
    /\ batchVelocity' = v
    /\ batchCentre' = centre
    /\ sortedOffsets' = <<>>
    /\ preloadItems' = <<>>
    /\ itemFrom' = <<>>
    /\ UNCHANGED <<loaderVars, controllerVars, fadeVars, planeVars,
                   sceneVars, retryVars, mediaVars, physVars>>

\* Lines 545-571 of a frame whose preload check passes, with the camera in
\* steady motion: the frame reads the velocity and the chunk it found.
OverscanBatch ==
  LET sorted == SortByVelocity(PRELOAD_CHUNK_OFFSETS, batchVelocity)
      acc == AddChunks([items |-> <<>>, from |-> <<>>], sorted, batchCentre,
                       1, Len(sorted))
  IN /\ sortedOffsets' = sorted
     /\ preloadItems' = acc.items
     /\ itemFrom' = acc.from
     /\ UNCHANGED <<batchVelocity, batchCentre>>
     /\ UNCHANGED <<loaderVars, controllerVars, fadeVars, planeVars,
                    sceneVars, retryVars, mediaVars, physVars>>

\* The overscan batches of frames, whatever the camera does.
NextBatch == Glide \/ OverscanBatch

SpecBatch == Init /\ [][NextBatch]_vars

\* A step of the camera's motion state.
AssignPhys(s, op) ==
  /\ velocity' = s.velocity
  /\ targetVel' = s.targetVel
  /\ basePos' = s.basePos
  /\ drift' = s.drift
  /\ mouse' = s.mouse
  /\ lastMouse' = s.lastMouse
  /\ scrollAccum' = s.scrollAccum
  /\ isDragging' = s.isDragging
  /\ cameraPosition' = s.cameraPosition
  /\ physLog' = [op |-> op, clamped |-> s.clamped]
  /\ physTicks' = IF op = "frame" THEN physTicks + 1 ELSE physTicks
  /\ physInputs' = IF op = "frame" THEN 0 ELSE physInputs + 1
  /\ UNCHANGED <<loaderVars, controllerVars, fadeVars, planeVars, sceneVars,
                 retryVars, mediaVars, batchVars>>

MouseDown ==
  \E e \in Pointers :
    /\ physInputs < MaxInputs
    /\ ~isDragging
    /\ AssignPhys(onMouseDown(Phys, e), "mousedown")

MouseUp ==
  /\ physInputs < MaxInputs
  /\ isDragging
  /\ AssignPhys(onMouseUp(Phys), "mouseup")

MouseLeave ==
  /\ physInputs < MaxInputs
  /\ AssignPhys(onMouseLeave(Phys), "mouseleave")

MouseMove ==
  \E e \in Pointers :
    /\ physInputs < MaxInputs
    /\ AssignPhys(onMouseMove(Phys, e), "mousemove")

Wheel ==
  \E e \in WheelDeltas :
    /\ physInputs < MaxInputs
    /\ AssignPhys(onWheel(Phys, e), "wheel")

\* The render loop calls the frame callback.
PhysicsTick ==
  \E keys \in KeySets :
    /\ physTicks < MaxTicks
    /\ AssignPhys(PhysicsFrame(Phys, keys), "frame")

\* The camera under the user's input.
NextMotion ==
  \/ MouseDown
  \/ MouseUp
  \/ MouseLeave
  \/ MouseMove
  \/ Wheel
  \/ PhysicsTick

SpecMotion == Init /\ [][NextMotion]_vars

\* ------------------------------------------------------------------ claims

Keys(entries) == {entries[i].url : i \in 1..Len(entries)}
TimeOf(entries, url) ==
  LET i == CHOOSE i \in 1..Len(entries) : entries[i].url = url
  IN entries[i].t

\* No fetch in flight and nothing queued.
Idle == InFlight = 0 /\ loadQueue = <<>>

\* The item closures of preloadAllTextures that were handed over and not called.
ItemsWaiting ==
  SumOver([u \in URLs |->
             Len(SelectSeq(registered[u], LAMBDA cb : cb[1] = "item"))], URLs)

\* C1: whatever the interleaving of getTexture, preloadTextures,
\* preloadAllTextures and fetch outcomes, no url has two fetches in flight:
\* a second getTexture for a url whose load is pending starts no second fetch.
C1_OneFetchPerUrl == \A u \in URLs : fetches[u] <= 1

\* Two closures wait for one url, handed over by two getTexture calls, and
\* one fetch of it is in flight.
C1_Witness ==
  \E u \in URLs : Len(registered[u]) >= 2 /\ fetches[u] = 1

\* C2: at most MAX_CONCURRENT_LOADS fetch+decode operations are in flight.
C2_BoundedConcurrency == InFlight <= MAX_CONCURRENT_LOADS

\* The limit is reached while urls are still queued.
C2_Witness == InFlight = MAX_CONCURRENT_LOADS /\ loadQueue # <<>>

\* C3: when the load of a url succeeds, the closures handed to getTexture
\* for it and still waiting are each called once, with that url's texture, in
\* the order they were handed over, and its wait list is empty afterwards.
C3_WaitersCalledInOrder ==
  [][\A u \in URLs :
       lastOp' = <<"loaded", u>> =>
         /\ delivered' = [i \in 1..Len(registered[u]) |-> <<registered[u][i], u>>]
         /\ loadCallbacks'[u] = <<>>
         /\ registered'[u] = <<>>]_vars

\* A load has just succeeded and called two waiters.
C3_Witness == lastOp[1] = "loaded" /\ Len(delivered) >= 2

\* C4: after every insert and eviction pass the cache holds at most
\* MAX_CACHE_SIZE textures.
C4_CacheWithinCapacity == Cardinality(textureCache) <= MAX_CACHE_SIZE

\* C5: once every item of preloadAllTextures has reached the cache or failed
\* and the loader is idle, the promise is resolved.
C5_PreloadAllCompletes == (promise.status # "none" /\ Idle) => promise.status = "resolved"

C7_LookupRefreshesLastUsed ==
  [][\A u \in URLs :
       lastOp' = <<"lookup", u>> => TimeOf(textureLastUsed', u) = now]_vars

\* The last-used time of a texture the last step disposed.
TimeBefore(u) ==
  IF lastOp' = <<"loaded", u>> THEN now ELSE TimeOf(textureLastUsed, u)

\* C8: eviction disposes each texture it removes once, removes it from the
\* cache map and from the last-used map, removes nothing else, and removes
\* oldest first: a removed texture was last used no later than any texture
\* removed after it or left in the cache.
C8_EvictsOldestAndDisposesOnce ==
  [][/\ \A i, j \in 1..Len(disposed') : disposed'[i] = disposed'[j] => i = j
     /\ Range(disposed') =
          (textureCache \cup {u \in URLs : lastOp' = <<"loaded", u>>})
            \ textureCache'
     /\ Range(disposed') \cap Keys(textureLastUsed') = {}
     /\ \A i \in 1..Len(disposed') :
          /\ \A j \in i + 1..Len(disposed') :
               TimeBefore(disposed'[i]) <= TimeBefore(disposed'[j])
          /\ \A v \in textureCache' :
               TimeBefore(disposed'[i]) <= TimeOf(textureLastUsed', v)]_vars

\* An eviction chose between textures last used at different times.
C8_Witness ==
  /\ Len(disposed) = 1
  /\ \E v \in textureCache : TimeOf(textureLastUsed, v) > lastUse[disposed[1]]

\* The urls getTexture was called for or whose load has completed.
Requested == {u \in URLs : lastUse[u] >= 0}

\* C9: once more urls than the cache holds have been requested and all their
\* loads have succeeded, the cache holds exactly MAX_CACHE_SIZE textures and
\* no url outside it was used later than a url inside it.
C9_KeepsMostRecentlyUsed ==
  (Idle /\ Cardinality(Requested) > MAX_CACHE_SIZE) =>
    /\ Cardinality(textureCache) = MAX_CACHE_SIZE
    /\ \A c \in textureCache, e \in Requested \ textureCache :
         lastUse[e] <= lastUse[c]

\* Every url was requested, at different times, and all loads have finished.
C9_Witness ==
  /\ Idle
  /\ Requested = URLs
  /\ \A u, v \in URLs : lastUse[u] = lastUse[v] => u = v

\* C10: a failed load leaves its url out of the cache, the queue and the
\* in-flight markers; no fetch of a url that is neither queued nor in flight
\* starts unless the host calls the loader; and a getTexture for such a url
\* queues it, and starts its fetch at once when a slot is free and nothing
\* else is queued.
C10_FailedLoadIsForgotten ==
  [][\A u \in URLs :
       /\ lastOp' = <<"failed", u>> =>
            /\ u \notin textureCache'
            /\ u \notin Range(loadQueue')
            /\ u \notin loadingUrls'
            /\ fetches'[u] = 0
       /\ (fetches[u] = 0 /\ u \notin Range(loadQueue) /\ fetches'[u] > 0) =>
            lastOp'[1] \in {"request", "preload", "preloadAll"}
       /\ (/\ lastOp' = <<"request", u>>
           /\ u \notin textureCache
           /\ fetches[u] = 0
           /\ u \notin Range(loadQueue)) =>
            /\ fetches'[u] = 1 \/ u \in Range(loadQueue')
            /\ (activeLoads < MAX_CONCURRENT_LOADS /\ loadQueue = <<>>) =>
                 started' = <<u>>]_vars

\* A closure still waits from a load that failed, and a later getTexture for
\* the same url has just started a fresh fetch of it.
C10_Witness ==
  \E u \in URLs :
    /\ lastOp = <<"request", u>>
    /\ started = <<u>>
    /\ Len(registered[u]) = 2

\* C11: provided every started fetch settles, every url in the load queue is
\* pulled from it in the end and a non-empty queue becomes empty, whether the
\* loads before it succeed or fail.
C11_QueueDrains ==
  /\ \A u \in URLs : (u \in Range(loadQueue)) ~> (u \notin Range(loadQueue))
  /\ (loadQueue # <<>>) ~> (loadQueue = <<>>)

\* The worker whose load failed went on to start the url queued behind it.
C11_Witness ==
  \E u \in URLs : lastOp = <<"failed", u>> /\ started # <<>>

\* C12: urls queued by preloadTextures do not delay a getTexture issued after
\* them: when a load slot is free, the url a getTexture enqueues is the one
\* whose fetch starts, not a preloaded url waiting in the queue.
C12_RequestNotBehindPreload ==
  [][\A u \in URLs :
       (/\ lastOp' = <<"request", u>>
        /\ u \notin textureCache
        /\ fetches[u] = 0
        /\ u \notin Range(loadQueue)
        /\ activeLoads < MAX_CONCURRENT_LOADS)
       => started' = <<u>>]_vars

\* C13: getTexture for a cached url calls onLoad with the cached texture and
\* neither enqueues the url nor starts a fetch; getTexture for a url that is
\* queued or in flight adds onLoad to the url's waiters and changes neither
\* the queue nor the fetches.
C13_CachedOrPendingRequest ==
  [][\A u \in URLs :
       lastOp' = <<"request", u>> =>
         /\ u \in textureCache =>
              /\ \E cb \in UserCallbacks : delivered' = << <<cb, u>> >>
              /\ loadQueue' = loadQueue
              /\ fetches' = fetches
              /\ started' = <<>>
              /\ loadCallbacks' = loadCallbacks
         /\ (u \notin textureCache /\ (fetches[u] > 0 \/ u \in Range(loadQueue))) =>
              /\ delivered' = <<>>
              /\ loadQueue' = loadQueue
              /\ fetches' = fetches
              /\ started' = <<>>
              /\ textureCache' = textureCache
              /\ \A v \in URLs \ {u} : loadCallbacks'[v] = loadCallbacks[v]
              /\ Range(loadCallbacks'[u]) =
                   Range(loadCallbacks[u]) \cup UserCallbacks]_vars

\* A getTexture for a cached url was answered at once while another url waits
\* in the queue, which the call left alone.
C13_Witness ==
  \E u \in URLs :
    /\ lastOp = <<"request", u>>
    /\ delivered # <<>>
    /\ loadQueue # <<>>

\* C14: of a rapid sequence of chunk crossings only the chunk the camera comes
\* to rest in is applied: a chunk the camera entered in one frame and left in
\* the next, less than the baseline throttle interval later, was not applied
\* to the active chunk list.
C14_OnlyRestingChunkApplied ==
  [][(/\ frameLog.entered
      /\ camChunk' # camChunk
      /\ frameNow' - frameNow < 100)
     => ~frameLog.applied]_vars

\* C15: an update applied by a frame comes at least the throttle interval of
\* that frame after the update applied before it: 100 ms in any case, 400 ms
\* when the frame began zooming (|velocity.z| > 0.05), 500 ms when the zoom
\* speed after smoothing exceeds 1.0.
C15_UpdatesThrottled ==
  [][(frameLog'.applied /\ appliedAt >= 0) =>
       /\ frameNow' - appliedAt >= 100
       /\ speedZ > 5 => frameNow' - appliedAt >= 400
       /\ speedZ' > 100 => frameNow' - appliedAt >= 500]_vars

\* A second update was applied under fast zoom.
C15_Witness ==
  /\ frameLog.applied
  /\ sinceUpdate >= 0
  /\ speedZ > 100

\* C16: an applied update is centred on the coordinate recorded last, which is
\* the chunk the camera is in, and nothing stays pending after it; a pending
\* coordinate is always the latest one entered, so a coordinate that was
\* overwritten is not applied later and the applied coordinates follow the
\* order in which the camera entered them.
C16_AppliesLatestPending ==
  /\ frameLog.applied => (chunks = camChunk /\ pendingChunk = <<>>)
  /\ pendingChunk # <<>> => pendingChunk = <<camChunk>>

\* A frame overwrote a coordinate that was still pending and applied the new
\* one.
C16_Witness ==
  /\ frameLog.applied
  /\ frameLog.overwrote
  /\ chunks # [cx |-> 0, cy |-> 0, cz |-> 0]

\* Ticks an image needs to become opaque: ceil(1 / FADE_IN_SPEED).
FadeInTicks == (100 + FADE_IN_SPEED - 1) \div FADE_IN_SPEED

\* C17: an entry that is neither removed nor stopped leaves tracking on the
\* 13th tick after its startFade, 13 = ceil(1 / FADE_IN_SPEED), with the image
\* at opacity 1 and the placeholder at 0: a tracked entry has seen fewer than
\* 13 ticks, and an entry a tick removed has seen exactly 13.
C17_RemovedOnThirteenthTick ==
  /\ FadeInTicks = 13
  /\ \A id \in FadeIds :
       /\ id \in FadeKeys(activeFades) => fadeTicks[id] < FadeInTicks
       /\ (fadeLog.op = "tick" /\ id \in fadeLog.removed) =>
            /\ fadeTicks[id] = FadeInTicks
            /\ id \notin FadeKeys(activeFades)
            /\ visuals[id].imageOpacity = 100
            /\ visuals[id].placeholderOpacity = 0

\* A tick finished one fade while the other entry is still tracked.
C17_Witness ==
  /\ fadeLog.op = "tick"
  /\ fadeLog.removed # {}
  /\ activeFades # <<>>

\* C18: at the end of a tick a next tick is requested exactly when an entry is
\* still tracked; with nothing tracked the loop is halted, no callback is
\* requested, and the next startFade requests one.
C18_LoopRunsWhileTracking ==
  /\ fadeLog.op = "tick" =>
       /\ Cardinality(rafPending) = IF activeFades # <<>> THEN 1 ELSE 0
       /\ isAnimating = (activeFades # <<>>)
       /\ activeFades = <<>> => animationFrameId = NoFrame
  /\ fadeLog.op = "start" =>
       /\ Cardinality(rafPending) = 1
       /\ isAnimating
       /\ animationFrameId \in rafPending

\* A startFade found the loop halted after an earlier fade had run to its end.
C18_Witness ==
  /\ fadeLog.op = "start"
  /\ fadeLog.wasIdle
  /\ \E id \in FadeIds : fadeTicks[id] = FadeInTicks

\* C19: after removeFade(id) and until the next startFade(id) no tick writes
\* to the opacity, the visibility or the depthWrite of the plane's objects.
C19_RemovedFadeIsLeftAlone ==
  [][fadeLog'.op = "tick" =>
       \A id \in FadeIds : fadeRemoved[id] => visuals'[id] = visuals[id]]_vars

\* A fade was removed half-way, and a tick went on with the other entry.
C19_Witness ==
  /\ fadeLog.op = "tick"
  /\ activeFades # <<>>
  /\ \E id \in FadeIds :
       /\ fadeRemoved[id]
       /\ visuals[id].imageOpacity \in 1..99

\* The last n elements of a sequence, or all of it.
LastOf(seq, n) ==
  SubSeq(seq, Max(1, Len(seq) - n + 1), Len(seq))

\* C20: the plane cache holds the MAX_PLANE_CACHE most recently fetched keys,
\* least recently fetched first: the insert that exceeds the capacity evicts
\* the least recently fetched key, whose next fetch is a miss, and a key that
\* was read again in between is more recent and stays.
C20_EvictsLeastRecentlyFetched ==
  /\ [i \in 1..Len(planeCache) |-> planeCache[i].key]
       = LastOf(recency, MAX_PLANE_CACHE)
  /\ planeLog.hit => planeLog.evicted = <<>>
  /\ Len(planeLog.evicted) <= 1

\* An insert evicted a key although an older entry, read again since, stays.
C20_Witness ==
  /\ planeLog.evicted # <<>>
  /\ planeLog.oldest # planeLog.evicted[1]
  /\ planeLog.oldest \in PlaneKeys(planeCache)

\* C21: after every generateChunkPlanesCached call the plane cache holds at
\* most MAX_PLANE_CACHE entries, and the key just asked for is one of them.
C21_WithinCapacityAndPresent ==
  /\ Len(planeCache) <= MAX_PLANE_CACHE
  /\ planeLog.key # <<>> => planeLog.key \in PlaneKeys(planeCache)

\* A call generated a list into a full cache.
C21_Witness ==
  /\ ~planeLog.hit
  /\ planeLog.evicted # <<>>
  /\ Len(planeCache) = MAX_PLANE_CACHE

\* C22: whatever calls came before, generateChunkPlanesCached(cx, cy, cz)
\* returns the list generateChunkPlanes(cx, cy, cz) returns, element by
\* element.
C22_CacheReturnsGenerated ==
  \A c \in PlaneChunks :
    planeLog.key = ChunkKey(c) =>
      /\ Len(planeLog.result) = Len(generateChunkPlanes(c))
      /\ \A i \in 1..Len(planeLog.result) :
           planeLog.result[i] = generateChunkPlanes(c)[i]

\* A hit returned the list of an entry that is not the first of the Map.
C22_Witness ==
  /\ planeLog.hit
  /\ Len(planeCache) >= 2
  /\ planeLog.oldest # planeLog.key

\* C24: the scene controller returns chunks only after preloadAllTextures'
\* promise has resolved, with every item of the manifest reported, and after
\* onLoadComplete has told the host.
C24_ChunksAfterPreload ==
  composed =>
    /\ promise.status = "resolved"
    /\ promise.loaded = promise.total
    /\ Len(progress) >= promise.total
    /\ isLoaded

\* The chunks were composed after a manifest of two items had loaded.
C24_Witness ==
  /\ composed
  /\ promise.total = MaxItems
  /\ Len(progress) = MaxItems

\* The offsets of the claim: every offset within the distance, each once,
\* nearest first.
NeighbourhoodList(list, maxDist) ==
  /\ {list[i] : i \in 1..Len(list)} =
       {[dx |-> x, dy |-> y, dz |-> z] :
          x \in -maxDist..maxDist, y \in -maxDist..maxDist, z \in -maxDist..maxDist}
  /\ \A i, j \in 1..Len(list) : i # j => list[i] # list[j]
  /\ \A i \in 1..(Len(list) - 1) : Chebyshev(list[i]) <= Chebyshev(list[i + 1])

\* C25: while the camera rests at its initial position the active chunk list
\* is the neighbourhood list of distance RENDER_DISTANCE + CHUNK_FADE_MARGIN
\* centred on chunk (0, 0, 0), before and after every frame.
C25_RestingNeighbourhood ==
  /\ Len(ActiveChunks) = Len(CHUNK_OFFSETS)
  /\ \A i \in 1..Len(ActiveChunks) :
       /\ ActiveChunks[i].cx = CHUNK_OFFSETS[i].dx
       /\ ActiveChunks[i].cy = CHUNK_OFFSETS[i].dy
       /\ ActiveChunks[i].cz = CHUNK_OFFSETS[i].dz
  /\ NeighbourhoodList(CHUNK_OFFSETS, RENDER_DISTANCE + CHUNK_FADE_MARGIN)

\* The throttled update has set the list again, for the chunk the camera
\* rests in, and frames went on after it.
C25_Witness ==
  /\ appliedAt >= 0
  /\ ~frameLog.applied
  /\ frameNow > appliedAt
  /\ Len(ActiveChunks) = 343

\* C26: when a frame hands a preload batch to the loader, no chunk the batch
\* covers is in the active chunk list at that time.
C26_BatchOutsideActive ==
  frameLog.preloaded =>
    \A x \in PreloadChunks(camChunk) :
      \A i \in 1..Len(ActiveChunks) : ActiveChunks[i].key # ChunkKey(x)

\* C27: while frames keep ticking, a chunk-set update pending for a chunk is
\* applied, making the chunk list the one centred on that chunk, unless the
\* camera leaves the chunk first.
C27_PendingUpdateApplied ==
  \A c \in TwoChunks :
    (pendingChunk = <<c>>) ~>
      \/ camChunk # c
      \/ pendingChunk = <<>> /\ chunks = c /\ ActiveChunks[1].key = ChunkKey(c)

\* An update that had to wait was applied in a later frame, the camera still
\* in the chunk.
C27_Witness ==
  /\ frameLog.applied
  /\ ~frameLog.entered
  /\ chunks = camChunk
  /\ chunks # [cx |-> 0, cy |-> 0, cz |-> 0]

\* C28: once a call of the loader has returned, urls wait in the queue only
\* while MAX_CONCURRENT_LOADS fetches are in flight.
C28_QueueWaitsOnlyWhenFull ==
  loadQueue # <<>> => InFlight >= MAX_CONCURRENT_LOADS

\* C29: activeLoads is the number of fetches in flight, and is never negative,
\* also when clearTextureCache is called while fetches are in flight.
C29_CounterIsFetchesInFlight ==
  /\ activeLoads = InFlight
  /\ activeLoads >= 0

\* C30: the closures waiting for a url when its load fails are not called at
\* the failure and are still on the url's wait list after it; when a later
\* load of the url succeeds, each of them is called with the url's texture.
C30_WaitersSurviveFailure ==
  \A u \in URLs :
    /\ lastOp = <<"failed", u>> =>
         /\ \A i \in 1..Len(failedWaiters[u]) :
              /\ <<failedWaiters[u][i], u>> \notin Range(delivered)
              /\ failedWaiters[u][i] \in Range(loadCallbacks[u])
         /\ Len(loadCallbacks[u]) = Len(failedWaiters[u])
    /\ lastOp = <<"loaded", u>> =>
         \A i \in 1..Len(failedWaiters[u]) :
           <<failedWaiters[u][i], u>> \in Range(delivered)

\* A load succeeded for a url whose earlier load had failed with a closure
\* waiting, and called the closure.
C30_Witness ==
  \E u \in URLs :
    /\ lastOp = <<"loaded", u>>
    /\ failedWaiters[u] # <<>>
    /\ delivered = <<<<failedWaiters[u][1], u>>>>

\* C33: in every state the fade manager reaches, isAnimating is true exactly
\* when one animate callback is requested, at most one is requested, the one
\* requested is the one animationFrameId names, and the loop is requested
\* whenever an entry is tracked.
C33_LoopScheduledOnce ==
  /\ isAnimating <=> Cardinality(rafPending) = 1
  /\ Cardinality(rafPending) <= 1
  /\ isAnimating => animationFrameId \in rafPending
  /\ activeFades # <<>> => isAnimating

\* stopAllFades halted a loop that was running with two entries tracked.
C33_Witness ==
  /\ fadeLog.op = "stop"
  /\ ~fadeLog.wasIdle
  /\ \A id \in FadeIds : fadeTicks[id] >= 1 /\ visuals[id].imageOpacity \in 1..99

\* C34: a tick steps every tracked entry: its image opacity goes up by
\* FADE_IN_SPEED but not over 1, its placeholder opacity down by
\* FADE_OUT_SPEED but not under 0, so neither moves the wrong way nor leaves
\* [0, 1], and the materials are given these values.
C34_OpacitiesStepAndClamp ==
  [][fadeLog'.op = "tick" =>
       \A i \in 1..Len(activeFades) :
         LET e == activeFades[i]
             v == visuals'[e.id]
         IN /\ v.imageOpacity >= e.imageOpacity
            /\ v.placeholderOpacity <= e.placeholderOpacity
            /\ v.imageOpacity \in 0..100
            /\ v.placeholderOpacity \in 0..100
            /\ v.imageOpacity =
                 IF e.imageOpacity + FADE_IN_SPEED <= 100
                 THEN e.imageOpacity + FADE_IN_SPEED ELSE 100
            /\ v.placeholderOpacity =
                 IF e.placeholderOpacity - FADE_OUT_SPEED >= 0
                 THEN e.placeholderOpacity - FADE_OUT_SPEED ELSE 0]_vars

\* A tick clamped an entry's placeholder opacity at 0 while its image opacity
\* was still rising, and another tracked entry was stepped without a clamp.
C34_Witness ==
  /\ fadeLog.op = "tick"
  /\ Len(activeFades) = 2
  /\ \E id \in FadeIds :
       /\ fadeTicks[id] = 11
       /\ visuals[id].placeholderOpacity = 0
       /\ visuals[id].imageOpacity = 88
  /\ \E id \in FadeIds : visuals[id].placeholderOpacity \in 1..99

\* C35: an entry that a tick removes leaves its plane with the image visible,
\* at opacity 1 and writing depth, and the placeholder hidden at opacity 0;
\* while the entry is tracked after a tick, the image does not write depth.
C35_DepthWriteOnlyWhenComplete ==
  \A id \in FadeIds :
    /\ (fadeLog.op = "tick" /\ id \in fadeLog.removed) =>
         visuals[id] = [imageOpacity |-> 100, placeholderOpacity |-> 0,
                        imageVisible |-> TRUE, placeholderVisible |-> FALSE,
                        depthWrite |-> TRUE]
    /\ (id \in FadeKeys(activeFades) /\ fadeTicks[id] >= 1) =>
         ~visuals[id].depthWrite

\* A tick completed one fade while the other plane was on the last tick before
\* its completion.
C35_Witness ==
  /\ fadeLog.op = "tick"
  /\ \E id \in FadeIds : id \in fadeLog.removed /\ visuals[id].depthWrite
  /\ \E id \in FadeIds :
       /\ id \in FadeKeys(activeFades)
       /\ fadeTicks[id] = FadeInTicks - 1

\* C31: once a plane has left the scene, no step registers a fade entry for it
\* or writes to its meshes and materials, also when the texture it asked for
\* arrives; the load itself puts the texture in the cache, where it stays
\* unless the eviction pass of the same step takes it out again.
C31_LateTextureIsDropped ==
  [][/\ \A id \in FadeIds :
          mediaPlanes[id].phase = "unmounted" =>
            /\ id \notin FadeKeys(activeFades')
            /\ visuals'[id] = visuals[id]
            /\ mediaPlanes'[id].map = mediaPlanes[id].map
            /\ planeHistory'[id].fades = planeHistory[id].fades
     /\ \A u \in URLs :
          lastOp' = <<"loaded", u>> =>
            u \in textureCache' \/ u \in Range(disposed')]_vars

\* A load ended and called the closure of a plane that had left the scene
\* while it waited.
C31_Witness ==
  \E id \in FadeIds :
    /\ mediaPlanes[id].phase = "unmounted"
    /\ lastOp = <<"loaded", mediaPlanes[id].url>>
    /\ <<PlaneClosure(id), mediaPlanes[id].url>> \in Range(delivered)
    /\ planeHistory[id].fades = 0
    /\ visuals[id].placeholderOpacity = 100
    /\ mediaPlanes[id].url \in textureCache

\* C32: a plane whose render found its texture in the cache shows the image
\* opaque and the placeholder hidden, makes no request and is never given to
\* the fade manager; a plane whose render did not find it makes one request
\* from its effect and is given to the fade manager once, in the step in which
\* the texture reaches it, and not again.
C32_CachedPlaneSkipsFade ==
  [][\A id \in FadeIds :
       LET pl == mediaPlanes'[id]
           h == planeHistory'[id]
       IN /\ (pl.phase # "none" /\ pl.isCached) =>
               /\ h.requests = 0
               /\ h.fades = 0
               /\ id \notin FadeKeys(activeFades')
               /\ visuals'[id] =
                    [imageOpacity |-> 100, placeholderOpacity |-> 0,
                     imageVisible |-> TRUE, placeholderVisible |-> FALSE,
                     depthWrite |-> TRUE]
          /\ (pl.phase \in {"mounted", "unmounted"} /\ ~pl.isCached) =>
               /\ h.requests = 1
               /\ h.fades <= 1
               /\ h.fades = 1 <=> pl.map # "null"
          /\ (/\ fadeLog'.op = "plane"
              /\ pl.phase = "mounted"
              /\ ~pl.isCached
              /\ <<PlaneClosure(id), pl.url>> \in Range(delivered')) =>
               /\ h.fades = 1
               /\ planeHistory[id].fades = 0
               /\ id \in FadeKeys(activeFades')]_vars

\* One plane was rendered from the cache and mounted, after the other plane
\* had waited for the same texture and faded it in.
C32_Witness ==
  \E id, other \in FadeIds :
    /\ mediaPlanes[id].phase = "mounted"
    /\ mediaPlanes[id].isCached
    /\ mediaPlanes[other].url = mediaPlanes[id].url
    /\ ~mediaPlanes[other].isCached
    /\ planeHistory[other].fades = 1
    /\ planeHistory[other].requests = 1

\* C36: a frame issues a preload batch exactly when the camera's chunk differs
\* from the chunk of the previous batch and more than PRELOAD_THROTTLE_MS have
\* passed since that batch, so two batches in a row are more than 500 ms
\* apart; the decision reads and writes only the preload stamp and key, and is
\* the same whether or not a chunk-set update is pending or was applied.
C36_PreloadThrottled ==
  [][/\ frameLog'.preloaded <=>
          /\ ChunkKey(camChunk') # lastPreloadKey
          /\ sincePreload' > PRELOAD_THROTTLE_MS
     /\ frameLog'.preloaded =>
          /\ lastPreloadKey' = ChunkKey(camChunk')
          /\ lastPreloadUpdate' = frameNow'
     /\ ~frameLog'.preloaded =>
          /\ lastPreloadKey' = lastPreloadKey
          /\ lastPreloadUpdate' <= lastPreloadUpdate]_vars

\* A second batch, 600 ms after the first: the clock stands at MaxNow, which a
\* first batch reaches only 700 ms after the start. The frame left a
\* chunk-set update pending.
C36_Witness ==
  /\ frameLog.preloaded
  /\ sincePreload = 600
  /\ frameNow = MaxNow
  /\ pendingChunk # <<>>
  /\ ~frameLog.applied

\* C37: the offsets a batch processes are the preload offsets, each once, in
\* non-increasing order of their dot product with the velocity; no media item
\* is queued twice, every item is queued for the first chunk in that order
\* that shows it, and so the items stand in non-increasing order of the best
\* dot product among the chunks that show them.
C37_BatchFollowsVelocity ==
  sortedOffsets # <<>> =>
    /\ Len(sortedOffsets) = Len(PRELOAD_CHUNK_OFFSETS)
    /\ Range(sortedOffsets) = Range(PRELOAD_CHUNK_OFFSETS)
    /\ \A k \in 1..(Len(sortedOffsets) - 1) :
         Dot(sortedOffsets[k], batchVelocity) >=
           Dot(sortedOffsets[k + 1], batchVelocity)
    /\ \A i, j \in 1..Len(preloadItems) :
         preloadItems[i] = preloadItems[j] => i = j
    /\ \A i \in 1..(Len(preloadItems) - 1) :
         Dot(sortedOffsets[itemFrom[i]], batchVelocity) >=
           Dot(sortedOffsets[itemFrom[i + 1]], batchVelocity)

\* A batch of a moving camera: the offsets run from ahead of the camera to
\* behind it, the first item was queued for a chunk ahead, and the last for a
\* chunk less far ahead, once the chunks before it had been gone through.
C37_Witness ==
  /\ sortedOffsets # <<>>
  /\ Dot(sortedOffsets[1], batchVelocity) > 0
  /\ Dot(sortedOffsets[Len(sortedOffsets)], batchVelocity) < 0
  /\ Len(preloadItems) > PLANES_PER_CHUNK
  /\ itemFrom[1] = 1
  /\ itemFrom[Len(itemFrom)] > 2
  /\ Dot(sortedOffsets[itemFrom[Len(itemFrom)]], batchVelocity) <
       Dot(sortedOffsets[1], batchVelocity)

\* The velocities and positions a frame leaves when the pointer and the drift
\* are taken out of the state it starts from.
WithoutPointer(keys) ==
  PhysicsFrame([Phys EXCEPT !.mouse = [x |-> 0, y |-> 0],
                            !.drift = [x |-> 0, y |-> 0]], keys)

\* C38: a pointer move without a button held writes the pointer only: base
\* position, velocity, target velocity and with them the chunk coordinate stay
\* as they are, and the frames that follow compute them as if the pointer and
\* the drift were not there; the pointer reaches the display through the
\* drift a frame adds to the base position, and a frame during a drag leaves
\* the drift as it is.
C38_PointerMovesOnlyDrift ==
  [][/\ (physLog'.op = "mousemove" /\ ~isDragging) =>
          /\ basePos' = basePos
          /\ velocity' = velocity
          /\ targetVel' = targetVel
          /\ ChunkOf(basePos') = ChunkOf(basePos)
          /\ scrollAccum' = scrollAccum
          /\ isDragging' = isDragging
     /\ physLog'.op = "frame" =>
          /\ \E keys \in KeySets :
               /\ basePos' = WithoutPointer(keys).basePos
               /\ velocity' = WithoutPointer(keys).velocity
               /\ targetVel' = WithoutPointer(keys).targetVel
          /\ cameraPosition' = [x |-> basePos'.x + drift'.x,
                                y |-> basePos'.y + drift'.y,
                                z |-> basePos'.z]
          /\ isDragging => drift' = drift]_vars

\* A frame during a drag has left alone the drift that an earlier pointer
\* move had built up, and the camera is shown away from its base position.
C38_Witness ==
  /\ physLog.op = "frame"
  /\ isDragging
  /\ mouse.x # 0
  /\ drift.x # 0
  /\ cameraPosition.x # basePos.x

\* Each component is within [-MAX_VELOCITY, MAX_VELOCITY].
WithinMax(v) ==
  /\ Abs(v.x) <= MAX_VELOCITY
  /\ Abs(v.y) <= MAX_VELOCITY
  /\ Abs(v.z) <= MAX_VELOCITY

\* C39: after every frame each velocity component is within MAX_VELOCITY of
\* zero, whatever the input events added to the target velocity; the frame
\* moves the base position by at most MAX_VELOCITY on each axis, and the
\* chunk coordinate by at most 1 on each axis.
C39_VelocityBounded ==
  [][/\ WithinMax(velocity')
     /\ physLog'.op = "frame" =>
          /\ WithinMax([x |-> basePos'.x - basePos.x,
                        y |-> basePos'.y - basePos.y,
                        z |-> basePos'.z - basePos.z])
          /\ Abs(ChunkOf(basePos').cx - ChunkOf(basePos).cx) <= 1
          /\ Abs(ChunkOf(basePos').cy - ChunkOf(basePos).cy) <= 1
          /\ Abs(ChunkOf(basePos').cz - ChunkOf(basePos).cz) <= 1]_vars

\* A frame cut a target velocity that a drag had pushed beyond the maximum,
\* and took the camera into the next chunk.
C39_Witness ==
  /\ physLog.op = "frame"
  /\ physLog.clamped
  /\ velocity.x # 0
  /\ ChunkOf(basePos).cx #
       ChunkOf([x |-> basePos.x - velocity.x, y |-> basePos.y - velocity.y,
                z |-> basePos.z - velocity.z]).cx

====
